---- MODULE Spec2Model ----
(***************************************************************************)
(* Rank synchronisation engine of sujikanthm/ranking-checker.              *)
(*                                                                         *)
(* Text is modelled as Python str values are: a sequence of one-character  *)
(* strings.  Formatting (f-strings), substring tests ("in"), re.search and *)
(* int() are computed on the characters.  The character "^" stands for the *)
(* improvement marker U+2191.                                              *)
(***************************************************************************)
EXTENDS Integers, Sequences, FiniteSets, TLC

VARIABLES
    prog,         \* which entry point runs: "format", "fetch", "cache", "body", "lolc",
                  \* "single", "batch", "all", "schema", "workers"
    upstream,     \* what the ranking API answers for a keyword in this behaviour
    variant,      \* check_ranking variant of the current call
    fpc,          \* position inside check_ranking
    keywords,     \* check_ranking argument: the keyword(s)
    target_urls,  \* check_ranking argument: the target domain(s)
    kw,           \* batch variant: index of the keyword being processed
    attempt,      \* retry loop variable
    results,      \* the dict check_ranking builds / returns
    cache,        \* st.cache_data store: arguments -> returned dict
    calls,        \* number of check_ranking calls made so far
    log,          \* externally visible events, in order
    sheet,        \* the worksheet's cell values, as get_all_values returns them
    fmt,          \* the worksheet's background colours, by 0-based <<row, column>>
    spc,          \* position inside update_google_sheet
    data,         \* update_google_sheet: the snapshot read at the start
    new_data,     \* update_google_sheet (lolc): the rows to write
    cells_to_format, \* update_google_sheet (lolc): the annotations of the run
    idx,          \* update_google_sheet: the loop variable i
    runs,         \* number of sync runs started
    sheets,       \* update_all_domains: the worksheets that exist, by domain
    task,         \* update_all_domains: the state of each submitted future
    ret,          \* update_all_domains: what each finished update_single_domain returned
    started,      \* update_all_domains: how often each domain's pipeline was started
    domains_processed, \* update_all_domains: the list of that name
    domains_failed     \* update_all_domains: the list of that name

callVars == <<variant, fpc, keywords, target_urls, kw, attempt, results, calls>>
fetchVars == <<callVars, cache>>
poolVars == <<sheets, task, ret, started, domains_processed, domains_failed>>
syncVars == <<sheet, fmt, spc, data, new_data, cells_to_format, idx, runs, poolVars>>
vars == <<prog, upstream, fetchVars, log, syncVars>>

----------------------------------------------------------------------------
(* Bounds of the model *)

MaxCalls == 2
MaxKeywords == 2
MaxRows == 2
MaxRuns == 2
MaxDomains == 3
MaxPool == 6

(* Program constants *)

MAX_RETRIES == 3
MAX_WORKERS == 5
NumResults == 100

----------------------------------------------------------------------------
(* Python values *)

None == 0 - 1
Truthy(x) == x # None /\ x # 0

Min(S) == CHOOSE x \in S : \A y \in S : x <= y
Range(s) == {s[i] : i \in 1..Len(s)}

EmptyDict == <<>>
DictSet(d, k, v) == [x \in (DOMAIN d) \cup {k} |-> IF x = k THEN v ELSE d[x]]

DigitChars == <<"0","1","2","3","4","5","6","7","8","9">>
IsDigit(c) == \E i \in 1..10 : DigitChars[i] = c
DigitValue(c) == (CHOOSE i \in 1..10 : DigitChars[i] = c) - 1

RECURSIVE IntToStr(_)
IntToStr(n) ==
    IF n < 10 THEN <<DigitChars[n + 1]>>
    ELSE IntToStr(n \div 10) \o <<DigitChars[(n % 10) + 1]>>

RECURSIVE StrToInt(_)
StrToInt(s) ==
    IF Len(s) = 0 THEN 0
    ELSE 10 * StrToInt(SubSeq(s, 1, Len(s) - 1)) + DigitValue(s[Len(s)])

\* Python: sub in s
Contains(sub, s) ==
    \E i \in 1..(Len(s) - Len(sub) + 1) : SubSeq(s, i, i + Len(sub) - 1) = sub

----------------------------------------------------------------------------
(* Text constants of the program *)

PageStr == <<"P","a","g","e"," ">>
RankStr == <<" ","R","a","n","k"," ">>
NotRanked == <<"N","o","t"," ","R","a","n","k","e","d">>
ErrorStr == <<"E","r","r","o","r">>
EmptyKeywordStr == <<"E","m","p","t","y"," ","K","e","y","w","o","r","d">>

(* Inputs: keywords, domains and result links *)

KW1 == <<"l","o","a","n","s">>
KW2 == <<"l","e","a","s","i","n","g">>
EmptyStr == <<>>

REFERENCE_DOMAIN == <<"l","o","l","c","f","i","n","a","n","c","e",".","c","o","m">>
KiaDomain == <<"k","i","a",".","l","k">>
WikiaDomain == <<"w","i","k","i","a",".","l","k">>

LinkRef == <<"l","o","l","c","f","i","n","a","n","c","e",".","c","o","m","/">>
LinkKia == <<"k","i","a",".","l","k","/">>
LinkWikia == <<"w","w","w",".","w","i","k","i","a",".","l","k","/","c","a","r","s">>
LinkOther == <<"e","x","a","m","p","l","e",".","o","r","g","/">>

----------------------------------------------------------------------------
(* check_ranking: the success branch *)

Result(p, l) == [position |-> p, link |-> l]

\* a scan in which a later matching result replaces an earlier one
MatchPositionLast(rankings, target_url) ==
    LET hits == {i \in 1..Len(rankings) : Contains(target_url, rankings[i].link)}
    IN  IF hits = {} THEN None
        ELSE rankings[CHOOSE i \in hits : \A x \in hits : x <= i].position

\* next((res["position"] for res in rankings if target_url in res["link"]), None)
MatchPosition(rankings, target_url) ==
    LET hits == {i \in 1..Len(rankings) : Contains(target_url, rankings[i].link)}
    IN  IF hits = {} THEN None ELSE rankings[Min(hits)].position

\* a slip in the page arithmetic: position // 10 instead of (position - 1) // 10
PageRankLabelNoShift(position) ==
    LET page_number == (position \div 10) + 1
        position_in_page == ((position - 1) % 10) + 1
    IN  PageStr \o IntToStr(page_number) \o RankStr \o IntToStr(position_in_page)

\* f"Page {page_number} Rank {position_in_page}"
PageRankLabel(position) ==
    LET page_number == ((position - 1) \div 10) + 1
        position_in_page == ((position - 1) % 10) + 1
    IN  PageStr \o IntToStr(page_number) \o RankStr \o IntToStr(position_in_page)

\* the (position, label) tuple stored for one target or keyword
RankEntry(position) ==
    IF Truthy(position)
    THEN [position |-> position, label |-> PageRankLabel(position)]
    ELSE [position |-> None, label |-> NotRanked]

ErrorEntry == [position |-> None, label |-> ErrorStr]
EmptyKeywordEntry == [position |-> None, label |-> EmptyKeywordStr]

\* app.py stores the label alone
AppEntry(position) == [label |-> RankEntry(position).label]
AppErrorEntry == [label |-> ErrorStr]

\* results of a successful attempt of the per-keyword variants
SuccessResults(rankings, urls) ==
    [u \in Range(urls) |-> RankEntry(MatchPosition(rankings, u))]

AppSuccessResults(rankings, urls) ==
    [u \in Range(urls) |-> AppEntry(MatchPosition(rankings, u))]

\* {url: (None, "Error") for url in target_urls}
ErrorResults(urls) == [u \in Range(urls) |-> ErrorEntry]
AppErrorResults(urls) == [u \in Range(urls) |-> AppErrorEntry]

----------------------------------------------------------------------------
(* The ranking API as seen in one behaviour: for a keyword, `fails` attempts *)
(* fail (transport failure or non-2xx status) before the organic results    *)
(* `rankings` are returned; fails = MAX_RETRIES is an API that stays down.   *)

Behaviour(n, k, r) == [fails |-> n, kind |-> k, rankings |-> r]

FormatRankingLists ==
    {<<>>}
    \cup {<<Result(p, LinkKia)>> : p \in 1..NumResults}
    \cup {<<Result(1, LinkOther), Result(2, LinkWikia), Result(3, LinkKia)>>,
          <<Result(4, LinkRef), Result(7, LinkKia), Result(9, LinkRef)>>}

SmallRankingLists ==
    {<<>>, <<Result(12, LinkKia)>>,
     <<Result(1, LinkOther), Result(2, LinkWikia), Result(3, LinkKia)>>}

LinkAlliance == <<"a","l","l","i","a","n","c","e","f","i","n","a","n","c","e",".","l","k","/">>

TrackedRankingLists ==
    {<<>>,
     <<Result(1, LinkOther), Result(2, LinkWikia), Result(3, LinkKia)>>,
     <<Result(4, LinkRef), Result(7, LinkKia), Result(9, LinkRef)>>}

PoolRankingLists == {<<>>, <<Result(2, LinkAlliance)>>}

SyncRankingLists ==
    {<<>>,
     <<Result(1, LinkOther), Result(2, LinkWikia), Result(3, LinkKia)>>,
     <<Result(4, LinkRef), Result(7, LinkKia), Result(9, LinkRef)>>,
     <<Result(3, LinkKia), Result(13, LinkRef)>>,
     <<Result(2, LinkRef)>>,
     <<Result(5, LinkRef)>>,
     <<Result(20, LinkRef)>>}

\* "format" draws every position the API can report; the other entry points
\* draw from a few result lists
RankingLists ==
    CASE prog = "format" -> FormatRankingLists
      [] prog = "lolc" -> SyncRankingLists
      [] prog \in {"single", "batch"} -> TrackedRankingLists
      [] prog = "all" -> PoolRankingLists
      [] OTHER -> SmallRankingLists

\* how an attempt fails: no response, a non-2xx status, or (entry point "body")
\* a 2xx response whose body is not JSON or whose first organic result lacks
\* its "link" field
FailureKinds ==
    IF prog = "body" THEN {"unparseable", "missing_field"} ELSE {"transport", "status"}

\* the sync entry points see an API that answers at once or stays down; the
\* check_ranking entry points see every number of failed attempts
BehavioursOf(keyword) ==
    IF prog \in {"lolc", "single", "batch", "all"}
    THEN {Behaviour(0, "none", r) : r \in RankingLists}
         \cup {Behaviour(MAX_RETRIES, "transport", <<>>)}
    ELSE {Behaviour(0, "none", r) : r \in RankingLists}
         \cup {Behaviour(n, k, r) : n \in 1..(MAX_RETRIES - 1), k \in FailureKinds,
                                    r \in RankingLists}
         \cup {Behaviour(MAX_RETRIES, k, <<>>) : k \in FailureKinds}

\* the behaviour already fixed for the keyword, or any behaviour on first use
Answers(keyword) ==
    IF keyword \in DOMAIN upstream THEN {upstream[keyword]} ELSE BehavioursOf(keyword)

Request(keyword) == [ev |-> "request", keyword |-> keyword]
RetrySleep == [ev |-> "retry_sleep"]
ThrottleSleep == [ev |-> "throttle"]

----------------------------------------------------------------------------
(* check_ranking, step by step *)

CacheKey == <<variant, keywords, target_urls>>
Cached(v) == v # "app"

FetchKeywords == {KW1, KW2}
TargetLists == {<<KiaDomain>>, <<REFERENCE_DOMAIN, KiaDomain>>,
                <<KiaDomain, WikiaDomain, REFERENCE_DOMAIN>>}
KeywordLists ==
    UNION {[1..n -> FetchKeywords \cup {EmptyStr}] : n \in 0..MaxKeywords}

CallArgs ==
    IF prog = "format"
    THEN {<<v, <<KW1>>, t>> : v \in {"perkw", "app"}, t \in TargetLists}
    ELSE IF prog = "repeat"
    THEN {<<v, <<KW1>>, <<KiaDomain>> >> : v \in {"perkw", "app"}}
         \cup {<<"batch", ks, <<KiaDomain>> >> : ks \in {<<KW1>>, <<KW1, KW2>>}}
    ELSE {<<v, <<k>>, t>> : v \in {"perkw", "app"}, k \in FetchKeywords, t \in TargetLists}
         \cup {<<"batch", ks, <<KiaDomain>> >> : ks \in KeywordLists}

\* "cache" and "repeat" repeat calls within the cache window; the others make
\* one call
CallLimit == IF prog \in {"cache", "repeat"} THEN MaxCalls ELSE 1

\* @st.cache_data: a call with arguments seen before returns the stored dict
CacheHit ==
    /\ fpc = "idle" /\ calls < CallLimit
    /\ \E a \in CallArgs :
        /\ Cached(a[1]) /\ a \in DOMAIN cache
        /\ variant' = a[1] /\ keywords' = a[2] /\ target_urls' = a[3]
        /\ results' = cache[a]
    /\ fpc' = "returned"
    /\ calls' = calls + 1
    /\ UNCHANGED <<syncVars, prog, upstream, kw, attempt, cache, log>>

\* the body of check_ranking starts
CallBody ==
    /\ fpc = "idle" /\ calls < CallLimit
    /\ \E a \in CallArgs :
        /\ ~(Cached(a[1]) /\ a \in DOMAIN cache)
        /\ variant' = a[1] /\ keywords' = a[2] /\ target_urls' = a[3]
        /\ fpc' = IF a[1] = "batch" THEN "loop" ELSE "request"
    /\ results' = EmptyDict
    /\ kw' = 1
    /\ attempt' = 0
    /\ calls' = calls + 1
    /\ UNCHANGED <<syncVars, prog, upstream, cache, log>>

\* a cache that keeps only the dicts without an "Error" entry
ReturnSkipsErrors(res) ==
    /\ results' = res
    /\ fpc' = "returned"
    /\ cache' = IF Cached(variant) /\ \A k \in DOMAIN res : res[k].label # ErrorStr
              THEN DictSet(cache, CacheKey, res)
              ELSE cache

Return(res) ==
    /\ results' = res
    /\ fpc' = "returned"
    /\ cache' = IF Cached(variant) THEN DictSet(cache, CacheKey, res) ELSE cache

\* batch variant: for keyword in keywords
BatchLoop ==
    /\ fpc = "loop"
    /\ IF kw > Len(keywords)
       THEN Return(results) /\ UNCHANGED <<kw, attempt>>
       ELSE IF keywords[kw] = EmptyStr
       THEN /\ results' = DictSet(results, keywords[kw], EmptyKeywordEntry)
            /\ kw' = kw + 1
            /\ UNCHANGED <<fpc, attempt, cache>>
       ELSE /\ attempt' = 0
            /\ fpc' = "request"
            /\ UNCHANGED <<results, kw, cache>>
    /\ UNCHANGED <<syncVars, prog, upstream, variant, keywords, target_urls, calls, log>>

\* requests.post succeeds with a 2xx status: the results are read
RequestOk ==
    /\ fpc = "request"
    /\ \E b \in Answers(keywords[kw]) :
        /\ attempt >= b.fails
        /\ upstream' = (keywords[kw] :> b) @@ upstream
        /\ CASE variant = "perkw" ->
                  Return(SuccessResults(b.rankings, target_urls)) /\ UNCHANGED <<kw, attempt>>
             [] variant = "app" ->
                  Return(AppSuccessResults(b.rankings, target_urls)) /\ UNCHANGED <<kw, attempt>>
             [] variant = "batch" ->
                  /\ results' = DictSet(results, keywords[kw],
                                        RankEntry(MatchPosition(b.rankings, target_urls[1])))
                  /\ fpc' = "throttle"
                  /\ UNCHANGED <<kw, attempt, cache>>
    /\ log' = Append(log, Request(keywords[kw]))
    /\ UNCHANGED <<syncVars, prog, variant, keywords, target_urls, calls>>

\* except RequestException, attempt < MAX_RETRIES - 1: time.sleep(RETRY_DELAY)
RequestRetry ==
    /\ fpc = "request" /\ variant # "app"
    /\ \E b \in Answers(keywords[kw]) :
        /\ attempt < b.fails /\ b.kind # "missing_field"
        /\ upstream' = (keywords[kw] :> b) @@ upstream
    /\ attempt < MAX_RETRIES - 1
    /\ fpc' = "retry_sleep"
    /\ log' = Append(log, Request(keywords[kw]))
    /\ UNCHANGED <<syncVars, prog, variant, keywords, target_urls, kw, attempt, results, cache, calls>>

\* a handler that sleeps RETRY_DELAY after the last failure as well
RequestExhaustedSleeps ==
    /\ fpc = "request" /\ variant # "app"
    /\ \E b \in Answers(keywords[kw]) :
        /\ attempt < b.fails /\ b.kind # "missing_field"
        /\ upstream' = (keywords[kw] :> b) @@ upstream
    /\ ~(attempt < MAX_RETRIES - 1)
    /\ IF variant = "perkw"
       THEN Return(ErrorResults(target_urls))
       ELSE /\ results' = DictSet(results, keywords[kw], ErrorEntry)
            /\ fpc' = "throttle"
            /\ UNCHANGED cache
    /\ log' = log \o <<Request(keywords[kw]), RetrySleep>>
    /\ UNCHANGED <<syncVars, prog, variant, keywords, target_urls, kw, attempt, calls>>

\* a handler that lets the last failure propagate instead of returning "Error"
RequestExhaustedReraises ==
    /\ fpc = "request" /\ variant # "app"
    /\ \E b \in Answers(keywords[kw]) :
        /\ attempt < b.fails /\ b.kind # "missing_field"
        /\ upstream' = (keywords[kw] :> b) @@ upstream
    /\ ~(attempt < MAX_RETRIES - 1)
    /\ fpc' = "raised"
    /\ log' = Append(log, Request(keywords[kw]))
    /\ UNCHANGED <<syncVars, prog, variant, keywords, target_urls, kw, attempt, results, cache, calls>>

\* except RequestException on the last attempt: the "Error" result
RequestExhausted ==
    /\ fpc = "request" /\ variant # "app"
    /\ \E b \in Answers(keywords[kw]) :
        /\ attempt < b.fails /\ b.kind # "missing_field"
        /\ upstream' = (keywords[kw] :> b) @@ upstream
    /\ ~(attempt < MAX_RETRIES - 1)
    /\ IF variant = "perkw"
       THEN Return(ErrorResults(target_urls))
       ELSE /\ results' = DictSet(results, keywords[kw], ErrorEntry)
            /\ fpc' = "throttle"
            /\ UNCHANGED cache
    /\ log' = Append(log, Request(keywords[kw]))
    /\ UNCHANGED <<syncVars, prog, variant, keywords, target_urls, kw, attempt, calls>>

\* app.py: one request, no try; a non-200 status gives "Error", a transport
\* failure raises out of requests.post
AppRequestFails ==
    /\ fpc = "request" /\ variant = "app"
    /\ \E b \in Answers(keywords[kw]) :
        /\ attempt < b.fails
        /\ upstream' = (keywords[kw] :> b) @@ upstream
        /\ IF b.kind = "status"
           THEN Return(AppErrorResults(target_urls))
           ELSE fpc' = "raised" /\ UNCHANGED <<results, cache>>
    /\ log' = Append(log, Request(keywords[kw]))
    /\ UNCHANGED <<syncVars, prog, variant, keywords, target_urls, kw, attempt, calls>>

\* time.sleep(RETRY_DELAY), then the next attempt
RetryDelay ==
    /\ fpc = "retry_sleep"
    /\ attempt' = attempt + 1
    /\ fpc' = "request"
    /\ log' = Append(log, RetrySleep)
    /\ UNCHANGED <<syncVars, prog, upstream, variant, keywords, target_urls, kw, results, cache, calls>>

\* batch variant: time.sleep(0.2) after the retry loop of a keyword
Throttle ==
    /\ fpc = "throttle"
    /\ kw' = kw + 1
    /\ fpc' = "loop"
    /\ log' = Append(log, ThrottleSleep)
    /\ UNCHANGED <<syncVars, prog, upstream, variant, keywords, target_urls, attempt, results, cache, calls>>

\* the caller takes the returned dict (or the exception)
FetchDone ==
    /\ fpc \in {"returned", "raised"}
    /\ fpc' = "idle"
    /\ UNCHANGED <<syncVars, prog, upstream, variant, keywords, target_urls, kw, attempt, results,
                   cache, calls, log>>

\* no call of check_ranking made yet
IdleCall ==
    /\ upstream = <<>>
    /\ variant = "perkw"
    /\ fpc = "idle"
    /\ keywords = <<>>
    /\ target_urls = <<>>
    /\ kw = 1
    /\ attempt = 0
    /\ results = EmptyDict
    /\ cache = <<>>
    /\ calls = 0
    /\ log = <<>>

\* no sync run started yet
IdleSync ==
    /\ spc = "none"
    /\ data = <<>>
    /\ new_data = <<>>
    /\ cells_to_format = <<>>
    /\ idx = 0
    /\ runs = 0

\* no thread pool yet
IdlePool ==
    /\ task = <<>>
    /\ ret = <<>>
    /\ started = <<>>
    /\ domains_processed = <<>>
    /\ domains_failed = <<>>

InitCheckRanking ==
    /\ IdleCall
    /\ sheet = <<>>
    /\ fmt = <<>>
    /\ IdleSync
    /\ sheets = <<>>
    /\ IdlePool

NextFetch ==
    \/ CallBody
    \/ BatchLoop
    \/ RequestOk
    \/ RequestRetry
    \/ RequestExhausted
    \/ AppRequestFails
    \/ RetryDelay
    \/ Throttle
    \/ FetchDone

InitFetch == prog = "fetch" /\ InitCheckRanking

SpecFetch == InitFetch /\ [][NextFetch]_vars

\* repeated calls within the cache window
InitCache == prog = "cache" /\ InitCheckRanking

NextCache == CacheHit \/ NextFetch

SpecCache == InitCache /\ [][NextCache]_vars

\* the same calls of check_ranking made again and again within the cache window
InitRepeat == prog = "repeat" /\ InitCheckRanking

SpecRepeat == InitRepeat /\ [][NextCache]_vars

\* one call of a per-keyword variant, over every position the API can report
InitFormat == prog = "format" /\ InitCheckRanking

NextFormat ==
    \/ CallBody
    \/ RequestOk
    \/ RequestRetry
    \/ RequestExhausted
    \/ AppRequestFails
    \/ RetryDelay
    \/ FetchDone

SpecFormat == InitFormat /\ [][NextFormat]_vars

\* a 2xx response with a malformed body, in the retrying variants: res["link"]
\* raises KeyError, which is no RequestException and leaves check_ranking;
\* response.json() raises a RequestException (handled by the retry handlers) or
\* a plain ValueError, depending on the installed requests release
RequestMalformed ==
    /\ fpc = "request" /\ variant # "app"
    /\ \E b \in Answers(keywords[kw]) :
        /\ attempt < b.fails /\ b.kind \in {"unparseable", "missing_field"}
        /\ upstream' = (keywords[kw] :> b) @@ upstream
    /\ fpc' = "raised"
    /\ log' = Append(log, Request(keywords[kw]))
    /\ UNCHANGED <<syncVars, prog, variant, keywords, target_urls, kw, attempt, results, cache, calls>>

\* one call, answered with malformed bodies
InitBody == prog = "body" /\ InitCheckRanking

NextBody == NextFetch \/ RequestMalformed

SpecBody == InitBody /\ [][NextBody]_vars

----------------------------------------------------------------------------
(* check_ranking as one call of the per-keyword variant: the dict it returns *)
(* and the events it causes, for the behaviour b of the API                 *)

PerKeywordResults(b, urls) ==
    IF b.fails < MAX_RETRIES
    THEN SuccessResults(b.rankings, urls)
    ELSE ErrorResults(urls)

RECURSIVE AttemptEvents(_, _, _)
AttemptEvents(keyword, b, a) ==
    IF a >= b.fails THEN <<Request(keyword)>>
    ELSE IF a < MAX_RETRIES - 1
    THEN <<Request(keyword), RetrySleep>> \o AttemptEvents(keyword, b, a + 1)
    ELSE <<Request(keyword)>>

PerKeywordKey(keyword, urls) == <<"perkw", <<keyword>>, urls>>

----------------------------------------------------------------------------
(* The improvement marker *)

ArrowStr == <<" ","^">>
RankWord == <<"R","a","n","k">>
RankSpace == <<"R","a","n","k"," ">>

Max(S) == CHOOSE x \in S : \A y \in S : x >= y

\* re.search(r'Rank (\d+)', text): the leftmost "Rank " followed by a digit,
\* and the longest run of digits after it
RankSearch(text) ==
    LET starts == {i \in 1..Len(text) :
                      /\ i + 5 <= Len(text)
                      /\ SubSeq(text, i, i + 4) = RankSpace
                      /\ IsDigit(text[i + 5])}
    IN  IF starts = {} THEN [matched |-> FALSE, group |-> <<>>]
        ELSE LET i == Min(starts)
                 last == Max({e \in (i + 5)..Len(text) :
                                 \A x \in (i + 5)..e : IsDigit(text[x])})
             IN  [matched |-> TRUE, group |-> SubSeq(text, i + 5, last)]

\* a comparison made without looking whether there is a new position
ImprovedLabelUnchecked(old_rank_text, new_position, new_rank_text) ==
    IF old_rank_text # EmptyStr /\ Contains(RankWord, old_rank_text)
    THEN LET old_rank_match == RankSearch(old_rank_text)
         IN  IF old_rank_match.matched
             THEN LET old_rank == StrToInt(old_rank_match.group)
                  IN  IF new_position < old_rank
                      THEN new_rank_text \o ArrowStr
                      ELSE new_rank_text
             ELSE new_rank_text
    ELSE new_rank_text

\* a comparison that also marks an unchanged rank
ImprovedLabelOrEqual(old_rank_text, new_position, new_rank_text) ==
    IF old_rank_text # EmptyStr /\ Contains(RankWord, old_rank_text)
    THEN LET old_rank_match == RankSearch(old_rank_text)
         IN  IF old_rank_match.matched /\ Truthy(new_position)
             THEN LET old_rank == StrToInt(old_rank_match.group)
                  IN  IF new_position <= old_rank
                      THEN new_rank_text \o ArrowStr
                      ELSE new_rank_text
             ELSE new_rank_text
    ELSE new_rank_text

\* a marker that is added on top of the marker the previous label carried
ImprovedLabelStacked(old_rank_text, new_position, new_rank_text) ==
    IF old_rank_text # EmptyStr /\ Contains(RankWord, old_rank_text)
    THEN LET old_rank_match == RankSearch(old_rank_text)
         IN  IF old_rank_match.matched /\ Truthy(new_position)
             THEN LET old_rank == StrToInt(old_rank_match.group)
                  IN  IF new_position < old_rank
                      THEN IF Contains(ArrowStr, old_rank_text)
                           THEN new_rank_text \o ArrowStr \o ArrowStr
                           ELSE new_rank_text \o ArrowStr
                      ELSE new_rank_text
             ELSE new_rank_text
    ELSE new_rank_text

\* if old_rank_text and "Rank" in old_rank_text: ... new_rank_text = f"{new_rank_text} ^"
ImprovedLabel(old_rank_text, new_position, new_rank_text) ==
    IF old_rank_text # EmptyStr /\ Contains(RankWord, old_rank_text)
    THEN LET old_rank_match == RankSearch(old_rank_text)
         IN  IF old_rank_match.matched /\ Truthy(new_position)
             THEN LET old_rank == StrToInt(old_rank_match.group)
                  IN  IF new_position < old_rank
                      THEN new_rank_text \o ArrowStr
                      ELSE new_rank_text
             ELSE new_rank_text
    ELSE new_rank_text

----------------------------------------------------------------------------
(* The worksheet *)

KeywordHeader == <<"k","e","y","w","o","r","d">>

Max2(a, b) == IF a >= b THEN a ELSE b

\* Python list.index, 0-based
IndexOf(seq, x) == Min({i \in 1..Len(seq) : seq[i] = x}) - 1

\* seq[1:]
Rest(seq) == IF Len(seq) = 0 THEN <<>> ELSE Tail(seq)

\* dict.get(key, default)
Get(d, k, default) == IF k \in DOMAIN d THEN d[k] ELSE default

\* sheet.update(values=..., range_name="A2"): the block is written from the
\* first column of the second row
UpdateFromA2(sh, values) ==
    [r \in 1..Max2(Len(sh), Len(values) + 1) |->
        IF r >= 2 /\ r - 1 <= Len(values)
        THEN LET old == IF r <= Len(sh) THEN sh[r] ELSE <<>>
                 new == values[r - 1]
             IN  [c \in 1..Max2(Len(old), Len(new)) |->
                     IF c <= Len(new) THEN new[c] ELSE old[c]]
        ELSE sh[r]]

\* updateCells over {"sheetId": 0} with fields backgroundColor: every cell of
\* the sheet loses its background
ClearBackgrounds(f) == [c \in DOMAIN f |-> "none"]

\* repeatCell requests, applied in order
RECURSIVE ApplyCells(_, _)
ApplyCells(f, cells) ==
    IF cells = <<>> THEN f
    ELSE ApplyCells([f EXCEPT ![<<cells[1].row, cells[1].col>>] = cells[1].color],
                    Tail(cells))

GetAllValues == [ev |-> "get_all_values"]
ClearFormatting == [ev |-> "clear_formatting"]
Update(values) ==
    [ev |-> "update", range |-> "A2", rows |-> Len(values),
     cols |-> IF values = <<>> THEN 0 ELSE Max({Len(values[r]) : r \in 1..Len(values)})]
BatchFormat(n) == [ev |-> "batch_format", cells |-> n]
Message(level) == [ev |-> "message", level |-> level]

----------------------------------------------------------------------------
(* lolc_rank_tracker.py: RankTracker.update_google_sheet *)

Infinity == 0 - 2

LolcHeaders(d) == d[1]
LolcKeywords(d) == [r \in 1..(Len(d) - 1) |-> d[r + 1][1]]
LolcDomains(d) == Rest(d[1])

\* previous_data = {row[0]: row[1:] for row in data[1:]}: the last row wins
LolcPrevious(d, keyword) ==
    Rest(d[Max({r \in 2..Len(d) : d[r][1] = keyword})])

\* a scan that takes the last of equal positions
RECURSIVE BestScanLast(_, _, _, _, _)
BestScanLast(rankings, domains, j, best_position, best_domain_index) ==
    IF j >= Len(domains) THEN best_domain_index
    ELSE LET position == Get(rankings, domains[j + 1], RankEntry(None)).position
         IN  IF Truthy(position) /\ (best_position = Infinity \/ position <= best_position)
             THEN BestScanLast(rankings, domains, j + 1, position, j)
             ELSE BestScanLast(rankings, domains, j + 1, best_position, best_domain_index)

\* the scan for the best position; j is the 0-based domain index
RECURSIVE BestScan(_, _, _, _, _)
BestScan(rankings, domains, j, best_position, best_domain_index) ==
    IF j >= Len(domains) THEN best_domain_index
    ELSE LET position == Get(rankings, domains[j + 1], RankEntry(None)).position
         IN  IF Truthy(position) /\ (best_position = Infinity \/ position < best_position)
             THEN BestScan(rankings, domains, j + 1, position, j)
             ELSE BestScan(rankings, domains, j + 1, best_position, best_domain_index)

BestDomainIndex(rankings, domains) == BestScan(rankings, domains, 0, Infinity, None)

\* the label of domain j of the row of `keyword`
LolcLabel(d, keyword, rankings, j) ==
    LET domains == LolcDomains(d)
        entry == Get(rankings, domains[j + 1], RankEntry(None))
        reference_domain_index == IndexOf(domains, REFERENCE_DOMAIN)
        old_ref_rank_text == LolcPrevious(d, keyword)[reference_domain_index + 1]
    IN  IF domains[j + 1] = REFERENCE_DOMAIN
        THEN ImprovedLabel(old_ref_rank_text, entry.position, entry.label)
        ELSE entry.label

\* an annotation that colours the reference cell and the best cell independently
LolcAnnotationsBoth(d, rankings, i, j) ==
    LET domains == LolcDomains(d)
        best_domain_index == BestDomainIndex(rankings, domains)
    IN  (IF domains[j + 1] = REFERENCE_DOMAIN
         THEN <<[row |-> i + 1, col |-> j + 1, color |-> "YELLOW"]>> ELSE <<>>)
        \o (IF j = best_domain_index
            THEN <<[row |-> i + 1, col |-> j + 1, color |-> "GREEN"]>> ELSE <<>>)

\* the annotations appended for domain j of row i (both 0-based)
LolcAnnotations(d, rankings, i, j) ==
    LET domains == LolcDomains(d)
        best_domain_index == BestDomainIndex(rankings, domains)
    IN  IF domains[j + 1] = REFERENCE_DOMAIN
        THEN <<[row |-> i + 1, col |-> j + 1,
                color |-> IF j = best_domain_index THEN "GREEN" ELSE "YELLOW"]>>
        ELSE IF j = best_domain_index
        THEN <<[row |-> i + 1, col |-> j + 1, color |-> "GREEN"]>>
        ELSE <<>>

RECURSIVE LolcRowAnnotations(_, _, _, _)
LolcRowAnnotations(d, rankings, i, j) ==
    IF j >= Len(LolcDomains(d)) THEN <<>>
    ELSE LolcAnnotations(d, rankings, i, j) \o LolcRowAnnotations(d, rankings, i, j + 1)

\* a row that leaves out the labels of the domains whose fetch ended in "Error"
LolcRowDataNoError(d, keyword, rankings) ==
    <<keyword>> \o SelectSeq([c \in 1..Len(LolcDomains(d)) |->
                                LolcLabel(d, keyword, rankings, c - 1)],
                            LAMBDA label : label # ErrorStr)

\* row_data: the keyword, then new_rank_text of every domain in header order
LolcRowData(d, keyword, rankings) ==
    <<keyword>> \o [c \in 1..Len(LolcDomains(d)) |-> LolcLabel(d, keyword, rankings, c - 1)]

\* data = self.sheet.get_all_values() and the checks before the loop
LolcRead ==
    /\ prog = "lolc" /\ spc = "start"
    /\ data' = sheet
    /\ IF sheet = <<>>
       THEN spc' = "done" /\ log' = log \o <<GetAllValues, Message("warning")>>
       ELSE IF REFERENCE_DOMAIN \notin Range(LolcDomains(sheet))
       THEN spc' = "done" /\ log' = log \o <<GetAllValues, Message("error")>>
       ELSE spc' = "clear" /\ log' = Append(log, GetAllValues)
    /\ new_data' = <<>>
    /\ cells_to_format' = <<>>
    /\ idx' = 0
    /\ UNCHANGED <<prog, upstream, fetchVars, sheet, fmt, runs, poolVars>>

\* self.clear_cell_formatting()
LolcClear ==
    /\ prog = "lolc" /\ spc = "clear"
    /\ fmt' = ClearBackgrounds(fmt)
    /\ log' = Append(log, ClearFormatting)
    /\ spc' = "loop"
    /\ UNCHANGED <<prog, upstream, fetchVars, sheet, data, new_data, cells_to_format, idx, runs, poolVars>>

\* an iteration whose check_ranking raises (a 2xx answer whose first organic
\* result lacks "link": KeyError, not caught in check_ranking and not cached):
\* the handler of update_google_sheet reports the failure and re-raises
LolcRaise ==
    /\ prog = "lolc" /\ spc = "loop"
    /\ idx < Len(LolcKeywords(data))
    /\ LET keyword == LolcKeywords(data)[idx + 1]
       IN  /\ PerKeywordKey(keyword, LolcDomains(data)) \notin DOMAIN cache
           /\ \E b \in Answers(keyword) \cup {Behaviour(1, "missing_field", <<>>)} :
                 /\ keyword \in DOMAIN upstream => b = upstream[keyword]
                 /\ b.kind \in {"unparseable", "missing_field"}
                 /\ upstream' = (keyword :> b) @@ upstream
           /\ log' = log \o <<Request(keyword), Message("error")>>
    /\ spc' = "done"
    /\ UNCHANGED <<prog, fetchVars, sheet, fmt, data, new_data, cells_to_format, idx, runs, poolVars>>

\* one iteration of: for i, keyword in enumerate(keywords)
LolcKeyword ==
    /\ prog = "lolc" /\ spc = "loop"
    /\ idx < Len(LolcKeywords(data))
    /\ LET keyword == LolcKeywords(data)[idx + 1]
           domains == LolcDomains(data)
           key == PerKeywordKey(keyword, domains)
       IN  \E b \in Answers(keyword) :
             LET hit == key \in DOMAIN cache
                 rankings == IF hit THEN cache[key] ELSE PerKeywordResults(b, domains)
             IN  /\ hit \/ b.kind \notin {"unparseable", "missing_field"}
                 /\ upstream' = IF hit THEN upstream ELSE (keyword :> b) @@ upstream
                 /\ cache' = IF hit THEN cache ELSE DictSet(cache, key, rankings)
                 /\ log' = IF hit THEN log ELSE log \o AttemptEvents(keyword, b, 0)
                 /\ new_data' = Append(new_data, LolcRowData(data, keyword, rankings))
                 /\ cells_to_format' =
                        cells_to_format \o LolcRowAnnotations(data, rankings, idx, 0)
    /\ idx' = idx + 1
    /\ UNCHANGED <<prog, callVars, sheet, fmt, spc, data, runs, poolVars>>

\* self.sheet.update(values=new_data, range_name="A2")
LolcWrite ==
    /\ prog = "lolc" /\ spc = "loop"
    /\ idx >= Len(LolcKeywords(data))
    /\ sheet' = UpdateFromA2(sheet, new_data)
    /\ log' = Append(log, Update(new_data))
    /\ spc' = "format"
    /\ UNCHANGED <<prog, upstream, fetchVars, fmt, data, new_data, cells_to_format, idx, runs, poolVars>>

\* a formatting pass that sends one request per annotated cell
LolcFormatPerCell ==
    /\ prog = "lolc" /\ spc = "format"
    /\ fmt' = ApplyCells(fmt, cells_to_format)
    /\ log' = log \o [n \in 1..Len(cells_to_format) |-> BatchFormat(1)]
                  \o <<Message("success")>>
    /\ spc' = "done"
    /\ UNCHANGED <<prog, upstream, fetchVars, sheet, data, new_data, cells_to_format, idx, runs, poolVars>>

\* self.apply_cell_formatting(cells_to_format) and the success message
LolcFormat ==
    /\ prog = "lolc" /\ spc = "format"
    /\ IF cells_to_format = <<>>
       THEN fmt' = fmt /\ log' = Append(log, Message("success"))
       ELSE /\ fmt' = ApplyCells(fmt, cells_to_format)
            /\ log' = log \o <<BatchFormat(Len(cells_to_format)), Message("success")>>
    /\ spc' = "done"
    /\ UNCHANGED <<prog, upstream, fetchVars, sheet, data, new_data, cells_to_format, idx, runs, poolVars>>

\* the page syncs and the one-domain pool are run and run again; the pool over
\* several domains is run once
RunLimit == IF prog \in {"all", "workers"} THEN 1 ELSE MaxRuns

\* the user presses the update button
StartRun ==
    /\ spc \in {"none", "done"}
    /\ runs < RunLimit
    /\ runs' = runs + 1
    /\ spc' = "start"
    /\ UNCHANGED <<prog, upstream, fetchVars, log, sheet, fmt, data, new_data,
                   cells_to_format, idx, poolVars>>

(* The sheets a lolc run can find *)

OldLabels ==
    {EmptyStr, NotRanked, ErrorStr,
     <<"P","a","g","e"," ","2"," ","R","a","n","k"," ","3">>,
     <<"P","a","g","e"," ","1"," ","R","a","n","k"," ","5">>,
     <<"P","a","g","e"," ","1"," ","R","a","n","k"," ","5"," ","^">>}

SheetKeywords == {KW1, KW2}

LolcHeaderRows ==
    {<<KeywordHeader, KiaDomain, REFERENCE_DOMAIN, WikiaDomain>>,
     <<KeywordHeader, REFERENCE_DOMAIN, KiaDomain>>,
     <<KeywordHeader, KiaDomain, WikiaDomain>>}

LolcRowsFor(h) ==
    {<<k>> \o [c \in 1..(Len(h) - 1) |->
                  IF h[c + 1] = REFERENCE_DOMAIN THEN old ELSE EmptyStr] :
        k \in SheetKeywords, old \in OldLabels}

LolcSheets ==
    {<<>>, << <<>> >>}
    \cup UNION {{<<h>> \o rows : rows \in [1..n -> LolcRowsFor(h)]} :
                   h \in LolcHeaderRows, n \in 0..MaxRows}

\* backgrounds: the cells of the largest sheet, one more row and one more column
Grid == (0..(MaxRows + 1)) \X (0..Max({Len(h) : h \in LolcHeaderRows}))

\* a sheet never coloured, and a sheet with a styled header row, a coloured
\* cell outside the table and the colours of an earlier run
InitialFormats ==
    {[c \in Grid |-> "none"],
     [c \in Grid |-> IF c[1] = 0 \/ c = <<MaxRows + 1, Max({Len(h) : h \in LolcHeaderRows})>>
                     THEN "blue"
                     ELSE IF c = <<1, 1>> THEN "GREEN"
                     ELSE IF c = <<1, 2>> THEN "YELLOW" ELSE "none"]}

InitLolc ==
    /\ prog = "lolc"
    /\ IdleCall
    /\ sheet \in LolcSheets
    /\ fmt \in InitialFormats
    /\ IdleSync
    /\ sheets = <<>>
    /\ IdlePool

NextLolc ==
    \/ StartRun
    \/ LolcRead
    \/ LolcClear
    \/ LolcKeyword
    \/ LolcWrite
    \/ LolcFormat

SpecLolc == InitLolc /\ [][NextLolc]_vars

\* sheets of the lolc page whose reference domain is spelled in upper case in
\* the header, or whose rows have an empty keyword cell
OddSheets ==
    UNION {{<<h>> \o rows :
               rows \in [1..n -> {<<k, old, EmptyStr>> :
                                     k \in {KW1, EmptyStr},
                                     old \in {EmptyStr, NotRanked,
                                              <<"P","a","g","e"," ","1"," ","R","a","n","k"," ","5">>}}]} :
           h \in {<<KeywordHeader, REFERENCE_DOMAIN, KiaDomain>>,
                  <<KeywordHeader,
                    <<"L","O","L","C","F","i","n","a","n","c","e",".","c","o","m">>,
                    KiaDomain>>},
           n \in 1..MaxRows}

InitOdd ==
    /\ prog = "lolc"
    /\ IdleCall
    /\ sheet \in OddSheets
    /\ fmt \in InitialFormats
    /\ IdleSync
    /\ sheets = <<>>
    /\ IdlePool

SpecOdd == InitOdd /\ [][NextLolc]_vars

\* the lolc page when the API can also answer with a malformed body
NextAbort == NextLolc \/ LolcRaise

\* the sheets that carry the highlights of an earlier run
InitAbort == InitLolc /\ fmt[<<1, 1>>] = "GREEN"

SpecAbort == InitAbort /\ [][NextAbort]_vars

----------------------------------------------------------------------------
(* Domain_Selector.py and Alliancefinance_Rank_Tracker.py:                   *)
(* RankTracker.update_google_sheet for one tracked domain                    *)

UpperChars ==
    <<"A","B","C","D","E","F","G","H","I","J","K","L","M","N","O","P","Q","R","S","T","U","V",
      "W","X","Y","Z">>
LowerChars ==
    <<"a","b","c","d","e","f","g","h","i","j","k","l","m","n","o","p","q","r","s","t","u","v",
      "w","x","y","z">>

\* str.lower()
LowerTable == [c \in Range(UpperChars) |-> LowerChars[CHOOSE i \in 1..26 : UpperChars[i] = c]]
Lower(text) ==
    [n \in 1..Len(text) |->
        IF text[n] \in DOMAIN LowerTable THEN LowerTable[text[n]] ELSE text[n]]

\* the domain the page tracks
selected_domain == KiaDomain

\* a header check that does not look at the first column
HeadersOkAnyFirstColumn(headers, domain) ==
    ~(\/ Len(headers) < 2
      \/ Lower(domain) \notin {Lower(headers[c]) : c \in 1..Len(headers)})

\* the header check: not (len(headers) < 2 or headers[0].lower() != "keyword"
\* or domain.lower() not in [h.lower() for h in headers])
HeadersOk(headers, domain) ==
    ~(\/ Len(headers) < 2
      \/ Lower(headers[1]) # KeywordHeader
      \/ Lower(domain) \notin {Lower(headers[c]) : c \in 1..Len(headers)})

\* next(i for i, h in enumerate(headers) if h.lower() == domain.lower())
DomainColIndex(headers, domain) ==
    Min({c \in 1..Len(headers) : Lower(headers[c]) = Lower(domain)}) - 1

\* headers.index("keyword") if "keyword" in headers else 0
KeywordsColIndex(headers) ==
    IF KeywordHeader \in Range(headers) THEN IndexOf(headers, KeywordHeader) ELSE 0

\* keywords = [row[keywords_col_index] for row in data[1:] if row]
SingleKeywords(d) ==
    LET rows == SelectSeq(Rest(d), LAMBDA row : row # <<>>)
    IN  [r \in 1..Len(rows) |-> rows[r][KeywordsColIndex(d[1]) + 1]]

\* previous_data[keyword]: the last data row with that keyword
PreviousRow(d, keyword) ==
    d[Max({r \in 2..Len(d) : d[r] # <<>> /\ d[r][KeywordsColIndex(d[1]) + 1] = keyword})]

\* previous_data.get(keyword, [])[domain_col_index] if ... else ""
OldRankText(d, keyword, domain) ==
    LET previous == PreviousRow(d, keyword)
        domain_col_index == DomainColIndex(d[1], domain)
    IN  IF Len(previous) > domain_col_index THEN previous[domain_col_index + 1] ELSE EmptyStr

\* row_num = data.index(previous_data.get(keyword, [])) + 1: the first row of the
\* snapshot that equals the keyword's row, the header row included
RowNum(d, keyword) == IndexOf(d, PreviousRow(d, keyword)) + 1

\* sheet.update_cell(row, col, value), 1-based; the grid grows when needed
UpdateCell(sh, row, col, value) ==
    [r \in 1..Max2(Len(sh), row) |->
        LET old == IF r <= Len(sh) THEN sh[r] ELSE <<>>
        IN  IF r = row
            THEN [c \in 1..Max2(Len(old), col) |->
                     IF c = col THEN value ELSE IF c <= Len(old) THEN old[c] ELSE EmptyStr]
            ELSE old]

UpdateCellEvent(row, col) == [ev |-> "update_cell", row |-> row, col |-> col]

\* data = self.sheet.get_all_values() and the checks before the loop
SingleRead ==
    /\ prog = "single" /\ spc = "start"
    /\ data' = sheet
    /\ IF sheet = <<>>
       THEN spc' = "done" /\ log' = log \o <<GetAllValues, Message("warning")>>
       ELSE IF ~HeadersOk(sheet[1], selected_domain)
       THEN spc' = "done" /\ log' = log \o <<GetAllValues, Message("error")>>
       ELSE spc' = "loop" /\ log' = Append(log, GetAllValues)
    /\ idx' = 0
    /\ UNCHANGED <<prog, upstream, fetchVars, sheet, fmt, new_data, cells_to_format, runs,
                   sheets, poolVars>>

\* one iteration of: for i, keyword in enumerate(keywords)
SingleKeyword ==
    /\ prog = "single" /\ spc = "loop"
    /\ idx < Len(SingleKeywords(data))
    /\ LET keyword == SingleKeywords(data)[idx + 1]
           key == PerKeywordKey(keyword, <<selected_domain>>)
       IN  IF keyword = EmptyStr
           THEN UNCHANGED <<upstream, cache, log, sheet>>
           ELSE \E b \in Answers(keyword) :
                  LET hit == key \in DOMAIN cache
                      rankings == IF hit THEN cache[key]
                                  ELSE PerKeywordResults(b, <<selected_domain>>)
                      entry == Get(rankings, selected_domain, RankEntry(None))
                      new_rank_text == ImprovedLabel(OldRankText(data, keyword, selected_domain),
                                                     entry.position, entry.label)
                      row_num == RowNum(data, keyword)
                      col == DomainColIndex(data[1], selected_domain) + 1
                  IN  /\ upstream' = IF hit THEN upstream ELSE (keyword :> b) @@ upstream
                      /\ cache' = IF hit THEN cache ELSE DictSet(cache, key, rankings)
                      /\ sheet' = UpdateCell(sheet, row_num, col, new_rank_text)
                      /\ log' = (IF hit THEN log ELSE log \o AttemptEvents(keyword, b, 0))
                                \o <<UpdateCellEvent(row_num, col), ThrottleSleep>>
    /\ idx' = idx + 1
    /\ UNCHANGED <<prog, callVars, fmt, spc, data, new_data, cells_to_format, runs,
                   sheets, poolVars>>

\* after the loop: the success message
SingleFinish ==
    /\ prog = "single" /\ spc = "loop"
    /\ idx >= Len(SingleKeywords(data))
    /\ spc' = "done"
    /\ log' = Append(log, Message("success"))
    /\ UNCHANGED <<prog, upstream, fetchVars, sheet, fmt, data, new_data, cells_to_format,
                   idx, runs, sheets, poolVars>>

(* The sheets a single-domain run can find *)

TrackedOldLabels ==
    {EmptyStr, NotRanked,
     <<"P","a","g","e"," ","2"," ","R","a","n","k"," ","3">>,
     <<"P","a","g","e"," ","1"," ","R","a","n","k"," ","5"," ","^">>}

TrackedHeaderRows(domain) ==
    {<<KeywordHeader, domain>>,
     <<KeywordHeader, REFERENCE_DOMAIN, domain>>,
     <<<<"K","e","y","w","o","r","d">>, <<"K","I","A",".","l","k">> >>}

UnusableHeaderRows == {<<KeywordHeader>>, <<KeywordHeader, REFERENCE_DOMAIN>>}

\* keyword rows with an earlier label in the tracked column, and a row that
\* repeats the header row
TrackedRowsFor(h, domain) ==
    {[c \in 1..Len(h) |->
         IF c = 1 THEN k
         ELSE IF Lower(h[c]) = Lower(domain) THEN old ELSE EmptyStr] :
        k \in SheetKeywords \cup {EmptyStr}, old \in TrackedOldLabels}
    \cup {h}

TrackedSheets(domain) ==
    {<<>>, << <<>> >>}
    \cup {<<h>> : h \in UnusableHeaderRows}
    \cup {<<h, [c \in 1..Len(h) |-> IF c = 1 THEN KW1 ELSE EmptyStr]>> :
             h \in UnusableHeaderRows}
    \cup UNION {{<<h>> \o rows : rows \in [1..n -> TrackedRowsFor(h, domain)]} :
                   h \in TrackedHeaderRows(domain), n \in 0..MaxRows}

InitSingle ==
    /\ prog = "single"
    /\ IdleCall
    /\ sheet \in TrackedSheets(selected_domain)
    /\ fmt = <<>>
    /\ IdleSync
    /\ sheets = <<>>
    /\ IdlePool

NextSingle ==
    \/ StartRun
    \/ SingleRead
    \/ SingleKeyword
    \/ SingleFinish

SpecSingle == InitSingle /\ [][NextSingle]_vars

----------------------------------------------------------------------------
(* Update_All_domains.py: check_ranking for a batch of keywords, as one call *)

\* the dict the batch variant returns when the API behaves as ups says
BatchResults(ups, kws, target_url) ==
    [k \in Range(kws) |->
        IF k = EmptyStr THEN EmptyKeywordEntry
        ELSE IF ups[k].fails < MAX_RETRIES
        THEN RankEntry(MatchPosition(ups[k].rankings, target_url))
        ELSE ErrorEntry]

\* the events of the batch variant, keyword by keyword
RECURSIVE BatchEvents(_, _)
BatchEvents(ups, kws) ==
    IF kws = <<>> THEN <<>>
    ELSE (IF kws[1] = EmptyStr THEN <<>>
          ELSE AttemptEvents(kws[1], ups[kws[1]], 0) \o <<ThrottleSleep>>)
         \o BatchEvents(ups, Tail(kws))

BatchKey(kws, domain) == <<"batch", kws, <<domain>> >>

\* what the API can answer for the keywords of a call: what is fixed stays
UpstreamFor(kws) ==
    LET fresh == {k \in Range(kws) : k # EmptyStr /\ k \notin DOMAIN upstream}
    IN  {u @@ upstream : u \in [fresh -> UNION {BehavioursOf(k) : k \in fresh}]}

(* Update_All_domains.py: MultiDomainRankTracker.update_single_domain *)

\* keywords = [row[keywords_col_index] for row in data[1:]
\*             if row and row[keywords_col_index]]
PoolKeywords(d) == SelectSeq(SingleKeywords(d), LAMBDA k : k # EmptyStr)

\* chr(65 + domain_col_index): the letters A..Z, then the characters that
\* follow Z in the character set
ColumnLetter(domain_col_index) ==
    (UpperChars \o <<"[", "\\", "]">>)[domain_col_index + 1]

\* the column (1-based) that the column part of an A1 address names in the
\* worksheet; None when the part is no column name
A1Column(column) ==
    IF column \in Range(UpperChars) THEN IndexOf(UpperChars, column) + 1 ELSE None

\* the entries of batch_updates, in order: the range f'{chr(65 +
\* domain_col_index)}{row_num}' and its new text
BatchUpdates(d, domain, all_rankings) ==
    LET kws == PoolKeywords(d)
    IN  [n \in 1..Len(kws) |->
            LET entry == all_rankings[kws[n]]
            IN  [row |-> RowNum(d, kws[n]),
                 column |-> ColumnLetter(DomainColIndex(d[1], domain)),
                 value |-> ImprovedLabel(OldRankText(d, kws[n], domain),
                                         entry.position, entry.label)]]

\* sheet.batch_update(batch_updates): the ranges are written in order
RECURSIVE ApplyBatch(_, _)
ApplyBatch(sh, updates) ==
    IF updates = <<>> THEN sh
    ELSE ApplyBatch(UpdateCell(sh, updates[1].row, A1Column(updates[1].column),
                               updates[1].value),
                    Tail(updates))

\* the domains of DOMAIN_CONFIG, in its order
ConfiguredDomains ==
    <<<<"a","l","l","i","a","n","c","e","f","i","n","a","n","c","e",".","l","k">>,
      <<"a","n","t","h","o","n","e","y","s",".","c","o","m">>,
      <<"b","a","b","y","n","a","m","e","s",".","l","k">>,
      <<"b","a","n","k","c","i","o","f","o","r","u","m",".","l","k">>,
      <<"b","a","u","r","s",".","c","o","m">>,
      <<"b","e","i","r","a","b","r","u","s","h",".","c","o","m">>,
      <<"c","a","r","s","o","n","c","u","m","b","e","r","b","a","t","c","h",".","c","o","m">>,
      <<"d","o","r","a","k","a","d","a","p","a","l","i","y","a",".","c","o","m">>,
      <<"e","c","o","s","p","i","n","d","l","e","s",".","c","o","m">>,
      <<"j","a","n","a","t","h","a","s","t","e","e","l","s",".","l","k">>,
      <<"j","o","h","n","k","e","e","l","l","s","f","o","u","n","d","a","t","i","o","n",".","c","o","m">>,
      <<"k","a","l","a","p","o","l","a",".","l","k">>,
      <<"k","i","a",".","l","k">>,
      <<"l","a","l","a","n","g","r","o","u","p",".","c","o","m">>,
      <<"l","a","l","a","n","r","u","b","b","e","r","s",".","c","o","m">>,
      <<"l","a","n","k","a","a","c","a","d","e","m","y",".","l","k">>,
      <<"l","a","n","k","a","t","a","l","e","n","t","s",".","l","k">>,
      <<"l","o","l","c","f","i","n","a","n","c","e",".","c","o","m">>,
      <<"l","o","l","c","g","e","n","e","r","a","l",".","c","o","m">>,
      <<"l","o","l","c","l","i","f","e",".","c","o","m">>,
      <<"p","l","a","s","t","i","c","c","y","c","l","e",".","l","k">>,
      <<"s","e","n","i","k","m","a","h","o","l","d","i","n","g","s",".","c","o","m">>,
      <<"k","e","e","l","l","s",".","c","o","m">> >>

\* config["sheet_gid"] of the domains of DOMAIN_CONFIG, in its order
SheetGids ==
    <<82728278, 1524835619, 2062356919, 277049799, 1988253579, 1133723007,
      1203202907, 78524544, 450928913, 252478567, 2068561581, 45289608,
      58695663, 299225538, 756345670, 603026025, 1970971384, 408082916,
      287586014, 1720241000, 1724175216, 22768441, 2055861260>>

\* a configuration in which every domain names the first worksheet
SheetGidShared(domain) == SheetGids[1]

\* config["sheet_gid"] of a configured domain
SheetGid(domain) == SheetGids[IndexOf(ConfiguredDomains, domain) + 1]

\* self.spreadsheet.get_worksheet_by_id(config["sheet_gid"]): its values, and
\* whether there is such a worksheet
Worksheet(domain) == sheets[SheetGid(domain)]
HasWorksheet(domain) == SheetGid(domain) \in DOMAIN sheets

BatchUpdateEvent(domain, n) ==
    [ev |-> "batch_update", domain |-> domain, sheet_gid |-> SheetGid(domain), ranges |-> n]
PoolRead(domain) ==
    [ev |-> "get_all_values", domain |-> domain, sheet_gid |-> SheetGid(domain)]

\* the configuration of the run: one domain, or the first domains of the list
DOMAIN_CONFIG ==
    CASE prog = "batch" -> <<KiaDomain>>
      [] prog = "workers" -> SubSeq(ConfiguredDomains, 1, MaxPool)
      [] OTHER -> SubSeq(ConfiguredDomains, 1, MaxDomains)

\* update_single_domain(domain, config), from its first line to its return
TaskFinish(domain) ==
    /\ prog \in {"batch", "all", "workers"} /\ spc = "collect"
    /\ task[domain] = "running"
    /\ task' = [task EXCEPT ![domain] = "finished"]
    /\ IF ~HasWorksheet(domain)
       THEN /\ ret' = [ret EXCEPT ![domain] = FALSE]
            /\ UNCHANGED <<upstream, cache, sheets, log>>
       ELSE IF Worksheet(domain) = <<>> \/ ~HeadersOk(Worksheet(domain)[1], domain)
       THEN /\ ret' = [ret EXCEPT ![domain] = FALSE]
            /\ log' = Append(log, PoolRead(domain))
            /\ UNCHANGED <<upstream, cache, sheets>>
       ELSE LET d == Worksheet(domain)
                kws == PoolKeywords(d)
                key == BatchKey(kws, domain)
                hit == key \in DOMAIN cache
            IN  \E ups \in (IF hit THEN {upstream} ELSE UpstreamFor(kws)) :
                  LET all_rankings == IF hit THEN cache[key]
                                      ELSE BatchResults(ups, kws, domain)
                      batch_updates == BatchUpdates(d, domain, all_rankings)
                      \* a range the worksheet cannot resolve: batch_update
                      \* raises, the handler returns False
                      rejected == \E n \in 1..Len(batch_updates) :
                                      A1Column(batch_updates[n].column) = None
                  IN  /\ upstream' = ups
                      /\ cache' = IF hit THEN cache ELSE DictSet(cache, key, all_rankings)
                      /\ sheets' = IF rejected THEN sheets
                                   ELSE [sheets EXCEPT ![SheetGid(domain)] =
                                            ApplyBatch(d, batch_updates)]
                      /\ log' = log \o <<PoolRead(domain)>>
                                    \o (IF hit THEN <<>> ELSE BatchEvents(ups, kws))
                                    \o (IF batch_updates # <<>> /\ ~rejected
                                        THEN <<BatchUpdateEvent(domain, Len(batch_updates))>>
                                        ELSE <<>>)
                      /\ ret' = [ret EXCEPT ![domain] = ~rejected]
    /\ UNCHANGED <<prog, callVars, sheet, fmt, spc, data, new_data, cells_to_format, idx, runs,
                   started, domains_processed, domains_failed>>

(* Update_All_domains.py: MultiDomainRankTracker.update_all_domains *)

\* executor.submit(self.update_single_domain, domain, config) for every domain
SubmitAll ==
    /\ prog \in {"batch", "all", "workers"} /\ spc = "start"
    /\ task' = [d \in Range(DOMAIN_CONFIG) |-> "submitted"]
    /\ started' = [d \in Range(DOMAIN_CONFIG) |-> 0]
    /\ ret' = [d \in Range(DOMAIN_CONFIG) |-> FALSE]
    /\ domains_processed' = <<>>
    /\ domains_failed' = <<>>
    /\ idx' = 0
    /\ spc' = "collect"
    /\ UNCHANGED <<prog, upstream, fetchVars, log, sheet, fmt, data, new_data, cells_to_format,
                   runs, sheets>>

\* a pool that starts a submitted task whether or not a worker thread is free
TaskStartUnbounded(domain) ==
    /\ prog \in {"batch", "all", "workers"} /\ spc = "collect"
    /\ task[domain] = "submitted"
    /\ \A n \in 1..Len(DOMAIN_CONFIG) :
          n < IndexOf(DOMAIN_CONFIG, domain) + 1 => task[DOMAIN_CONFIG[n]] # "submitted"
    /\ task' = [task EXCEPT ![domain] = "running"]
    /\ started' = [started EXCEPT ![domain] = @ + 1]
    /\ UNCHANGED <<prog, upstream, fetchVars, log, sheet, fmt, spc, data, new_data,
                   cells_to_format, idx, runs, sheets, ret, domains_processed, domains_failed>>

\* a free worker thread takes the oldest submitted task
TaskStart(domain) ==
    /\ prog \in {"batch", "all", "workers"} /\ spc = "collect"
    /\ task[domain] = "submitted"
    /\ \A n \in 1..Len(DOMAIN_CONFIG) :
          n < IndexOf(DOMAIN_CONFIG, domain) + 1 => task[DOMAIN_CONFIG[n]] # "submitted"
    /\ Cardinality({d \in DOMAIN task : task[d] = "running"}) < MAX_WORKERS
    /\ task' = [task EXCEPT ![domain] = "running"]
    /\ started' = [started EXCEPT ![domain] = @ + 1]
    /\ UNCHANGED <<prog, upstream, fetchVars, log, sheet, fmt, spc, data, new_data,
                   cells_to_format, idx, runs, sheets, ret, domains_processed, domains_failed>>

\* a body of the as_completed loop that files every domain as processed
CollectAlwaysProcessed(domain) ==
    /\ prog \in {"batch", "all", "workers"} /\ spc = "collect"
    /\ task[domain] = "finished"
    /\ task' = [task EXCEPT ![domain] = "collected"]
    /\ idx' = idx + 1
    /\ domains_processed' = Append(domains_processed, domain)
    /\ domains_failed' = domains_failed
    /\ UNCHANGED <<prog, upstream, fetchVars, log, sheet, fmt, spc, data, new_data,
                   cells_to_format, runs, sheets, ret, started>>

\* one iteration of: for future in as_completed(future_to_domain)
Collect(domain) ==
    /\ prog \in {"batch", "all", "workers"} /\ spc = "collect"
    /\ task[domain] = "finished"
    /\ task' = [task EXCEPT ![domain] = "collected"]
    /\ idx' = idx + 1
    /\ IF ret[domain]
       THEN /\ domains_processed' = Append(domains_processed, domain)
            /\ domains_failed' = domains_failed
       ELSE /\ domains_failed' = Append(domains_failed, domain)
            /\ domains_processed' = domains_processed
    /\ UNCHANGED <<prog, upstream, fetchVars, log, sheet, fmt, spc, data, new_data,
                   cells_to_format, runs, sheets, ret, started>>

\* the final summary, after the executor has shut down
Summary ==
    /\ prog \in {"batch", "all", "workers"} /\ spc = "collect"
    /\ \A d \in DOMAIN task : task[d] = "collected"
    /\ spc' = "done"
    /\ log' = log \o (IF domains_processed # <<>> THEN <<Message("success")>> ELSE <<>>)
                  \o (IF domains_failed # <<>> THEN <<Message("warning")>> ELSE <<>>)
    /\ UNCHANGED <<prog, upstream, fetchVars, sheet, fmt, data, new_data, cells_to_format,
                   idx, runs, poolVars>>

NextPool ==
    \/ StartRun
    \/ SubmitAll
    \/ \E domain \in Range(DOMAIN_CONFIG) : TaskStart(domain)
    \/ \E domain \in Range(DOMAIN_CONFIG) : TaskFinish(domain)
    \/ \E domain \in Range(DOMAIN_CONFIG) : Collect(domain)
    \/ Summary

(* one configured domain, over the sheets a single-domain run can find *)

InitBatch ==
    /\ prog = "batch"
    /\ IdleCall
    /\ sheet = <<>>
    /\ fmt = <<>>
    /\ IdleSync
    /\ \/ sheets = <<>>
       \/ \E sh \in TrackedSheets(KiaDomain) : sheets = (SheetGid(KiaDomain) :> sh)
    /\ IdlePool

SpecBatch == InitBatch /\ [][NextPool]_vars

\* a header row of 27 columns with the tracked domain in the last one
WideHeader ==
    [c \in 1..27 |-> IF c = 1 THEN KeywordHeader ELSE IF c = 27 THEN KiaDomain ELSE EmptyStr]

\* one configured domain whose worksheet has two columns or 27
InitWide ==
    /\ prog = "batch"
    /\ IdleCall
    /\ sheet = <<>>
    /\ fmt = <<>>
    /\ IdleSync
    /\ \E h \in {WideHeader, <<KeywordHeader, KiaDomain>>} :
          \E n \in 0..MaxRows :
              \E rows \in [1..n -> TrackedRowsFor(h, KiaDomain) \ {h}] :
                  sheets = (SheetGid(KiaDomain) :> (<<h>> \o rows))
    /\ IdlePool

SpecWide == InitWide /\ [][NextPool]_vars

(* several configured domains, each with a worksheet of its own or none *)

PoolSheets(domain) ==
    {<<>>,
     <<<<KeywordHeader, domain>>>>,
     <<<<KeywordHeader, domain>>,
       <<KW1, <<"P","a","g","e"," ","2"," ","R","a","n","k"," ","3">> >> >>}

InitAll ==
    /\ prog = "all"
    /\ IdleCall
    /\ sheet = <<>>
    /\ fmt = <<>>
    /\ IdleSync
    /\ \E present \in SUBSET Range(DOMAIN_CONFIG) :
          /\ sheets \in [{SheetGid(d) : d \in present} ->
                           UNION {PoolSheets(d) : d \in present}]
          /\ \A d \in present : Worksheet(d) \in PoolSheets(d)
    /\ IdlePool

SpecAll == InitAll /\ [][NextPool]_vars

(* several configured domains, each with a worksheet that has its keyword row *)
(* under good headers or under headers the header check rejects              *)

SchemaSheets(domain) ==
    {<<<<KeywordHeader, domain>>, <<KW1, EmptyStr>> >>,
     <<<<KeywordHeader>>, <<KW1>> >>,
     <<<<domain, KeywordHeader>>, <<EmptyStr, KW1>> >>,
     <<<<KeywordHeader, REFERENCE_DOMAIN>>, <<KW1, EmptyStr>> >>}

InitSchema ==
    /\ prog = "all"
    /\ IdleCall
    /\ sheet = <<>>
    /\ fmt = <<>>
    /\ IdleSync
    /\ sheets \in [{SheetGid(d) : d \in Range(DOMAIN_CONFIG)} ->
                     UNION {SchemaSheets(d) : d \in Range(DOMAIN_CONFIG)}]
    /\ \A d \in Range(DOMAIN_CONFIG) : Worksheet(d) \in SchemaSheets(d)
    /\ IdlePool

SpecSchema == InitSchema /\ [][NextPool]_vars

(* MaxPool configured domains, more than there are worker threads, in a      *)
(* spreadsheet without their worksheets; every worker thread that has a task *)
(* runs it to its end, and the loop over as_completed takes every finished   *)
(* future                                                                    *)

InitWorkers ==
    /\ prog = "workers"
    /\ InitCheckRanking

FairPool ==
    /\ WF_vars(SubmitAll)
    /\ \A domain \in Range(SubSeq(ConfiguredDomains, 1, MaxPool)) :
          /\ WF_vars(domain \in DOMAIN task /\ TaskStart(domain))
          /\ WF_vars(domain \in DOMAIN task /\ TaskFinish(domain))
          /\ WF_vars(domain \in DOMAIN task /\ Collect(domain))
    /\ WF_vars(Summary)

SpecWorkers == InitWorkers /\ [][NextPool]_vars /\ FairPool

(* the two page syncs, run and run again *)

InitRerun == InitLolc \/ InitSingle

NextRerun == NextLolc \/ NextSingle

SpecRerun == InitRerun /\ [][NextRerun]_vars

(* the multi-domain page sync and the pool over one configured domain *)

InitMarker == InitLolc \/ InitBatch

NextMarker == NextLolc \/ NextPool

SpecMarker == InitMarker /\ [][NextMarker]_vars

(* every sync entry point *)

InitSync == InitLolc \/ InitSingle \/ InitBatch \/ InitAll

NextSync == NextLolc \/ NextSingle \/ NextPool

SpecSync == InitSync /\ [][NextSync]_vars

----------------------------------------------------------------------------
(* Claims *)

PageRankText(P, R) ==
    <<"P","a","g","e"," ">> \o IntToStr(P) \o <<" ","R","a","n","k"," ">> \o IntToStr(R)

\* the call in progress got a 2xx answer on its last request
AnsweredOk ==
    /\ keywords # <<>>
    /\ keywords[1] \in DOMAIN upstream
    /\ attempt >= upstream[keywords[1]].fails

\* C1: a matched result at position p in 1..100 is labelled "Page P Rank R" with
\* P = ((p-1) div 10) + 1 in 1..10 and R = ((p-1) mod 10) + 1 in 1..10, so that
\* 10*(P-1) + R = p (1 -> Page 1 Rank 1, 11 -> Page 2 Rank 1, 100 -> Page 10
\* Rank 10); a target matched by no result is labelled exactly "Not Ranked".
C1_PositionLabel ==
    (fpc = "returned" /\ variant \in {"perkw", "app"} /\ AnsweredOk) =>
        \A u \in DOMAIN results :
            LET p == MatchPosition(upstream[keywords[1]].rankings, u)
                label == results[u].label
            IN  /\ p \in 1..NumResults =>
                      \E P \in 1..10, R \in 1..10 :
                          /\ 10 * (P - 1) + R = p
                          /\ label = PageRankText(P, R)
                /\ p = None => label = <<"N","o","t"," ","R","a","n","k","e","d">>
                /\ p = 1 => label = <<"P","a","g","e"," ","1"," ","R","a","n","k"," ","1">>
                /\ p = 11 => label = <<"P","a","g","e"," ","2"," ","R","a","n","k"," ","1">>
                /\ p = 100 =>
                      label = <<"P","a","g","e"," ","1","0"," ","R","a","n","k"," ","1","0">>

\* C1 witness: one call returned position 100 as "Page 10 Rank 10" for the
\* matched target and "Not Ranked" for the unmatched one
C1_Witness ==
    /\ fpc = "returned" /\ AnsweredOk
    /\ target_urls = <<REFERENCE_DOMAIN, KiaDomain>>
    /\ MatchPosition(upstream[keywords[1]].rankings, KiaDomain) = 100
    /\ results[KiaDomain].label =
           <<"P","a","g","e"," ","1","0"," ","R","a","n","k"," ","1","0">>
    /\ results[REFERENCE_DOMAIN].label = NotRanked

\* every attempt for the keyword fails
AllAttemptsFail(keyword) ==
    keyword \in DOMAIN upstream /\ upstream[keyword].fails = MAX_RETRIES

\* C2: when all 3 attempts for a keyword fail (transport failure or non-2xx),
\* the retrying variants end with (None, "Error") for every requested domain
\* (per-keyword variant) or for that keyword (batch variant), and they never
\* end by raising.
C2_RetryExhaustion ==
    /\ (variant # "app") => fpc # "raised"
    /\ (fpc = "returned" /\ variant = "perkw" /\ AllAttemptsFail(keywords[1])) =>
           /\ DOMAIN results = Range(target_urls)
           /\ \A u \in Range(target_urls) :
                  results[u] = [position |-> None, label |-> <<"E","r","r","o","r">>]
    /\ (fpc = "returned" /\ variant = "batch") =>
           \A i \in 1..Len(keywords) :
               AllAttemptsFail(keywords[i]) =>
                   /\ keywords[i] \in DOMAIN results
                   /\ results[keywords[i]] =
                          [position |-> None, label |-> <<"E","r","r","o","r">>]

\* C2 witness: a batch call whose second keyword failed three times returned
C2_Witness ==
    /\ fpc = "returned" /\ variant = "batch"
    /\ Len(keywords) = 2
    /\ AllAttemptsFail(keywords[2]) /\ ~AllAttemptsFail(keywords[1])
    /\ Len(SelectSeq(log, LAMBDA e : e = Request(keywords[2]))) = MAX_RETRIES
    /\ results[keywords[2]].label = ErrorStr

(* The lolc run seen from outside: what was fetched for row i (0-based), and *)
(* the annotations the run has collected for it                              *)

RowKeyword(i) == data[i + 2][1]
RowRankings(i) == cache[PerKeywordKey(RowKeyword(i), LolcDomains(data))]
RowPosition(i, j) == RowRankings(i)[LolcDomains(data)[j + 1]].position
DomainIndexes == 0..(Len(LolcDomains(data)) - 1)
RowAnnotations(i, j) ==
    SelectSeq(cells_to_format, LAMBDA c : c.row = i + 1 /\ c.col = j + 1)

InLolcRun == prog = "lolc" /\ spc \in {"loop", "format", "done"} /\ data # <<>>
               /\ REFERENCE_DOMAIN \in Range(LolcDomains(data))
RowsDone == IF InLolcRun THEN 0..(idx - 1) ELSE {}

\* the domains with a found position, and the first of those with the lowest
Found(i) == {j \in DomainIndexes : RowPosition(i, j) \in 1..NumResults}
IsBest(i, j) ==
    \A found \in {Found(i)} :
        /\ j \in found
        /\ \A p \in {RowPosition(i, j)} :
               \A x \in found :
                   \A q \in {RowPosition(i, x)} : p <= q /\ (q = p => j <= x)
IsGreen(i, j) ==
    \E n \in 1..Len(cells_to_format) :
        cells_to_format[n] = [row |-> i + 1, col |-> j + 1, color |-> "GREEN"]

\* C6: in every keyword row of the lolc sync the cell flagged best (green) is
\* the first domain in header order whose new position is the minimum over the
\* domains with a found position; a domain without a position is never flagged,
\* and a row without any position has no flagged cell.
C6_BestIsFirstMinimum ==
    \A i \in RowsDone : \A j \in DomainIndexes : IsGreen(i, j) <=> IsBest(i, j)

\* C6 witness: two domains tie on the lowest position, the reference domain has
\* none, and the first of the two is the one flagged
C6_Witness ==
    /\ InLolcRun /\ spc = "done" /\ idx >= 1
    /\ \E j \in DomainIndexes, x \in DomainIndexes :
          /\ j < x
          /\ RowPosition(0, j) = 2 /\ RowPosition(0, x) = 2
          /\ IsGreen(0, j) /\ ~IsGreen(0, x)
    /\ \E r \in DomainIndexes : RowPosition(0, r) = None /\ ~IsGreen(0, r)

\* C7: in a lolc run no cell gets two annotations; the reference domain's cell
\* of every keyword row gets exactly one, the best-rank highlight when the
\* reference domain is the best and the reference highlight otherwise; any other
\* cell is annotated only when it is the best, with the best-rank highlight.
C7_OneAnnotationPerCell ==
    \A i \in RowsDone : \A j \in DomainIndexes :
        \A a \in {RowAnnotations(i, j)} : \A best \in {IsBest(i, j)} :
            /\ Len(a) <= 1
            /\ LolcDomains(data)[j + 1] = REFERENCE_DOMAIN =>
                  /\ Len(a) = 1
                  /\ a[1].color = IF best THEN "GREEN" ELSE "YELLOW"
            /\ LolcDomains(data)[j + 1] # REFERENCE_DOMAIN =>
                  /\ Len(a) = 1 <=> best
                  /\ Len(a) = 1 => a[1].color = "GREEN"

\* C7 witness: a finished run with a row where the reference domain is the best
\* and a row where another domain is
C7_Witness ==
    /\ InLolcRun /\ spc = "done" /\ idx = 2
    /\ \E j \in DomainIndexes :
          /\ LolcDomains(data)[j + 1] = REFERENCE_DOMAIN
          /\ IsBest(0, j) /\ RowAnnotations(0, j)[1].color = "GREEN"
          /\ ~IsBest(1, j) /\ RowAnnotations(1, j)[1].color = "YELLOW"
          /\ \E x \in DomainIndexes : IsBest(1, x) /\ RowAnnotations(1, x)[1].color = "GREEN"

\* the cells outside the block a lolc run writes: the header row, and every
\* cell beyond the keyword rows or beyond the header's columns
OutsideBlock ==
    {c \in Grid : c[1] = 0 \/ c[1] > Len(sheet) - 1 \/ c[2] >= Len(sheet[1])}

\* C9: a lolc sync leaves the background of every cell outside the written data
\* block (the header row, and the cells beyond the keyword rows and the domain
\* columns) as it was.
C9_OutsideBackgroundKept ==
    [][prog = "lolc" /\ sheet # <<>> => \A c \in OutsideBlock : fmt'[c] = fmt[c]]_vars

(* The runs of a page sync seen from outside: the log from one read of the   *)
(* sheet to the next is one run; the cells a run wrote, 1-based <<row, col>> *)

ReadIndexes == {n \in 1..Len(log) : log[n] = GetAllValues}
NthRead(k) == CHOOSE n \in ReadIndexes : Cardinality({x \in ReadIndexes : x < n}) = k - 1
RunLog(k) ==
    SubSeq(log, NthRead(k),
           IF Cardinality(ReadIndexes) > k THEN NthRead(k + 1) - 1 ELSE Len(log))
SheetCells == {cell \in (1..Len(sheet)) \X (1..4) : cell[2] <= Len(sheet[cell[1]])}
CellsWritten(events) ==
    {cell \in SheetCells :
        \E n \in 1..Len(events) :
            \/ /\ events[n].ev = "update_cell"
               /\ events[n].row = cell[1] /\ events[n].col = cell[2]
            \/ /\ events[n].ev = "update"
               /\ cell[1] \in 2..(events[n].rows + 1) /\ cell[2] \in 1..events[n].cols}

InPageRun == prog \in {"lolc", "single"} /\ data # <<>> /\ ReadIndexes # {}
TrackedColumn ==
    IF prog = "lolc" THEN IndexOf(data[1], REFERENCE_DOMAIN) + 1
    ELSE DomainColIndex(data[1], selected_domain) + 1
TrackedCellsOfRun ==
    {cell \in CellsWritten(RunLog(Cardinality(ReadIndexes))) : cell[2] = TrackedColumn}
\* the position the run fetched for the keyword of the row
FetchedPosition(r) ==
    IF prog = "lolc"
    THEN cache[PerKeywordKey(data[r][1], LolcDomains(data))][REFERENCE_DOMAIN].position
    ELSE cache[PerKeywordKey(data[r][KeywordsColIndex(data[1]) + 1],
                             <<selected_domain>>)][selected_domain].position
\* the absolute position a label "Page P Rank R" stands for
AbsolutePosition(text) ==
    LET marks == {n \in 7..Len(text) :
                     n + 5 < Len(text) /\ SubSeq(text, n, n + 5) = <<" ","R","a","n","k"," ">>}
    IN  IF Len(text) >= 13 /\ SubSeq(text, 1, 5) = <<"P","a","g","e"," ">> /\ marks # {}
        THEN LET n == Min(marks)
                 page == SubSeq(text, 6, n - 1)
                 rank == SubSeq(text, n + 6, Len(text))
             IN  IF /\ \A x \in 1..Len(page) : IsDigit(page[x])
                    /\ \A x \in 1..Len(rank) : IsDigit(rank[x])
                    /\ text = PageRankText(StrToInt(page), StrToInt(rank))
                    /\ StrToInt(page) \in 1..10 /\ StrToInt(rank) \in 1..10
                 THEN 10 * (StrToInt(page) - 1) + StrToInt(rank)
                 ELSE None
        ELSE None
HasMarker(text) ==
    Len(text) >= 2 /\ SubSeq(text, Len(text) - 1, Len(text)) = <<" ","^">>
StripMarker(text) == IF HasMarker(text) THEN SubSeq(text, 1, Len(text) - 2) ELSE text

\* C3: for the reference/tracked domain, whenever the previous label of the cell
\* is "Page P Rank R" and the new position is strictly lower than the previous
\* absolute position 10*(P-1)+R, the label written carries the improvement
\* marker (previous "Page 2 Rank 3" and new position 5 give "Page 1 Rank 5 ^").
C3_MarkerOnLowerPosition ==
    InPageRun =>
        \A cell \in TrackedCellsOfRun :
            LET previous == AbsolutePosition(data[cell[1]][cell[2]])
                position == FetchedPosition(cell[1])
            IN  (previous # None /\ position \in 1..NumResults /\ position < previous) =>
                    HasMarker(sheet[cell[1]][cell[2]])

\* the runs of the claim: the second run has read what the first one wrote
SecondRun == InPageRun /\ runs = 2 /\ Cardinality(ReadIndexes) = 2
RewrittenCells == CellsWritten(RunLog(1)) \cap CellsWritten(RunLog(2))

Count(x, seq) == Cardinality({n \in 1..Len(seq) : seq[n] = x})
Configured == Range(DOMAIN_CONFIG)
\* the worksheet of the domain exists, has data and has the required headers
Usable(d) == HasWorksheet(d) /\ Worksheet(d) # <<>> /\ HeadersOk(Worksheet(d)[1], d)

\* C5: after a run of update_all_domains every configured domain is in exactly
\* one of domains_processed and domains_failed, once; each domain's pipeline was
\* started exactly once; and the list a domain ends in depends on its own
\* worksheet only, so the failures are exactly the domains whose own pipeline
\* fails (with 3 domains of which only the 2nd fails: one failure, two
\* successes).
C5_EveryDomainOnce ==
    /\ (prog = "all" /\ spc \in {"collect", "done"}) =>
           \A d \in Configured : started[d] <= 1
    /\ (prog = "all" /\ spc = "done") =>
           /\ \A d \in Configured :
                 /\ Count(d, domains_processed) + Count(d, domains_failed) = 1
                 /\ started[d] = 1
                 /\ Count(d, domains_processed) = 1 <=> Usable(d)
           /\ Len(domains_processed) + Len(domains_failed) = Len(DOMAIN_CONFIG)
           /\ Len(domains_failed) = Cardinality({d \in Configured : ~Usable(d)})

\* C5 witness: a finished run where only the 2nd configured domain failed, for
\* want of a worksheet
C5_Witness ==
    /\ prog = "all" /\ spc = "done"
    /\ ~HasWorksheet(DOMAIN_CONFIG[2])
    /\ domains_failed = <<DOMAIN_CONFIG[2]>>
    /\ Len(domains_processed) = Len(DOMAIN_CONFIG) - 1
    /\ \A d \in Configured : started[d] = 1

\* the cell values of a worksheet before and after a step: what differs lies in
\* the tracked domain's column, in row 2 or below
FrameKept(old, new, domain) ==
    /\ Len(new) = Len(old)
    /\ \A r \in 1..Len(old) :
          /\ Len(new[r]) = Len(old[r])
          /\ \A c \in 1..Len(old[r]) :
                new[r][c] # old[r][c] =>
                    /\ r >= 2
                    /\ HeadersOk(old[1], domain)
                    /\ c = DomainColIndex(old[1], domain) + 1

\* C8: a single-domain sync writes values only to cells of the tracked domain's
\* column in row 2 and below; the header row, the keyword column and the other
\* domains' columns keep their values, whatever the sheet holds.
C8_OnlyTrackedColumnWritten ==
    [][/\ prog = "single" => FrameKept(sheet, sheet', selected_domain)
       /\ (prog = "batch" /\ HasWorksheet(KiaDomain)) =>
              FrameKept(Worksheet(KiaDomain), Worksheet(KiaDomain)', KiaDomain)]_vars

\* a sheet without data, or with a usable header row and no keyword row
NoKeywordsLolc(sh) ==
    sh = <<>> \/ (Len(sh) = 1 /\ REFERENCE_DOMAIN \in Range(LolcDomains(sh)))
NoKeywordsPool(d) ==
    HasWorksheet(d) /\ (Worksheet(d) = <<>> \/ (Len(Worksheet(d)) = 1 /\ Usable(d)))
StoreChanges == {"clear_formatting", "update", "batch_format", "update_cell", "batch_update"}

\* C10: an empty sheet or a sheet with zero keywords is a no-op and no error:
\* the run issues no value write and no formatting change, and update_all_domains
\* does not put such a domain in domains_failed.
C10_EmptySheetIsNoOp ==
    /\ (prog = "lolc" /\ NoKeywordsLolc(sheet)) =>
           \A n \in 1..Len(log) : log[n].ev \notin StoreChanges
    /\ (prog = "all" /\ spc = "done") =>
           \A d \in Configured :
               NoKeywordsPool(d) =>
                   /\ Count(d, domains_failed) = 0
                   /\ \A n \in 1..Len(log) : log[n] # BatchUpdateEvent(d, 1)

\* the requests the call in progress has issued for a keyword
RequestsFor(keyword) == Len(SelectSeq(log, LAMBDA e : e = Request(keyword)))

\* C11: every check_ranking variant, the one of app.py included, resolves a
\* keyword to "Error" only after 3 failed attempts: a single non-2xx response or
\* transport failure is followed by a further attempt, never by an immediate
\* "Error" result or by an exception to the caller.
C11_ErrorOnlyAfterThreeAttempts ==
    /\ fpc # "raised"
    /\ (fpc = "returned" /\ variant \in {"perkw", "app"}) =>
           \A u \in DOMAIN results :
               results[u].label = <<"E","r","r","o","r">> =>
                   RequestsFor(keywords[1]) = 3
    /\ (fpc = "returned" /\ variant = "batch") =>
           \A k \in DOMAIN results :
               results[k].label = <<"E","r","r","o","r">> =>
                   RequestsFor(k) >= 3

(* the log of one check_ranking call: the attempts of one keyword of a batch *)
(* end with the throttle delay                                                *)

\* the place in the log where the attempts that include event n begin
AttemptsStart(n) ==
    LET before == {x \in 1..(n - 1) : log[x] = ThrottleSleep}
    IN  IF before = {} THEN 1 ELSE Max(before) + 1
\* the number of requests among those attempts, up to event n
AttemptNo(n) ==
    Cardinality({x \in AttemptsStart(n)..n : log[x].ev = "request"})

AllAttemptsMalformed(keyword) ==
    /\ keyword \in DOMAIN upstream
    /\ upstream[keyword].fails = MAX_RETRIES
    /\ upstream[keyword].kind \in {"unparseable", "missing_field"}

\* C13: a 2xx response with a malformed body (not parseable, or an organic result
\* without its position or url field) is a retryable failure: it uses up one of
\* the 3 attempts, and when every attempt is malformed the keyword resolves to
\* (None, "Error") and nothing is raised to the caller.
C13_MalformedBodyIsRetried ==
    /\ (prog = "body" /\ variant # "app") => fpc # "raised"
    /\ (prog = "body" /\ fpc = "returned" /\ variant = "perkw"
          /\ AllAttemptsMalformed(keywords[1])) =>
           /\ RequestsFor(keywords[1]) = 3
           /\ \A u \in Range(target_urls) :
                  results[u] = [position |-> None, label |-> <<"E","r","r","o","r">>]
    /\ (prog = "body" /\ fpc = "returned" /\ variant = "batch") =>
           \A n \in 1..Len(keywords) :
               AllAttemptsMalformed(keywords[n]) =>
                   results[keywords[n]] =
                       [position |-> None, label |-> <<"E","r","r","o","r">>]

\* the label the run read as the previous one for the keyword of row r; col is
\* the 1-based column of the tracked domain
PreviousLabel(r, col) ==
    IF prog = "lolc"
    THEN LolcPrevious(data, data[r][1])[col - 1]
    ELSE OldRankText(data, data[r][KeywordsColIndex(data[1]) + 1], selected_domain)
\* the text holds "Rank " followed by a digit
HasRankNumber(text) ==
    \E n \in 1..Len(text) :
        /\ n + 5 <= Len(text)
        /\ SubSeq(text, n, n + 4) = <<"R","a","n","k"," ">>
        /\ text[n + 5] \in {"0","1","2","3","4","5","6","7","8","9"}
\* the rows whose cell in column col the events wrote
TrackedRowsWritten(events, col) ==
    UNION {IF events[n].ev = "update_cell" /\ events[n].col = col
           THEN {events[n].row}
           ELSE IF events[n].ev = "update" THEN 2..(events[n].rows + 1) ELSE {} :
           n \in 1..Len(events)}
\* a marker on the new label is one the claim allows
MarkerAllowed(old, position, new) ==
    /\ HasMarker(new) =>
           /\ HasRankNumber(old)
           /\ position # None
           /\ AbsolutePosition(StripMarker(old)) # None =>
                  position < AbsolutePosition(StripMarker(old))
    /\ position = None =>
           new \in {<<"N","o","t"," ","R","a","n","k","e","d">>, <<"E","r","r","o","r">>}
    /\ HasMarker(old) => RankSearch(old) = RankSearch(StripMarker(old))

\* a pipeline of the pool that returned True wrote, for every keyword of its
\* snapshot, a label the claim allows into the row the code addresses
PoolMarkersAllowed(domain) ==
    (task[domain] = "running" /\ task'[domain] = "finished" /\ ret'[domain]) =>
        \A d \in {Worksheet(domain)} :
            \A col \in {DomainColIndex(d[1], domain) + 1} :
                \A k \in Range(PoolKeywords(d)) :
                    \A old \in {OldRankText(d, k, domain)} :
                        \A position \in {cache'[BatchKey(PoolKeywords(d), domain)][k].position} :
                            MarkerAllowed(old, position, Worksheet(domain)'[RowNum(d, k)][col])

\* C14: no improvement marker is appended when the new position is equal to or
\* worse than the previous absolute position, when the new result is absent
\* ("Not Ranked" or "Error"), or when the previous label holds no rank number; a
\* previous label that ends with the marker is parsed to the same rank number
\* as the label without it.
C14_NoMarkerWithoutImprovement ==
    /\ [][(/\ prog \in {"lolc", "single"}
           /\ \E n \in (Len(log) + 1)..Len(log') :
                  log'[n].ev \in {"update", "update_cell"}) =>
             \A col \in {TrackedColumn} :
                 \A r \in TrackedRowsWritten(SubSeq(log', Len(log) + 1, Len(log')), col) :
                     \A old \in {PreviousLabel(r, col)} :
                         \A position \in {FetchedPosition(r)'} :
                             MarkerAllowed(old, position, sheet'[r][col])]_vars
    /\ [][prog = "batch" => \A domain \in DOMAIN task : PoolMarkersAllowed(domain)]_vars

\* C14 witness: a finished run wrote, without marker, a cell whose previous
\* label carried the marker and whose new position equals the previous one,
\* and a cell whose new result is absent although its previous label had a rank
C14_Witness ==
    /\ InPageRun /\ spc = "done"
    /\ \E cell \in TrackedCellsOfRun :
          /\ HasMarker(PreviousLabel(cell[1], cell[2]))
          /\ FetchedPosition(cell[1]) = AbsolutePosition(StripMarker(PreviousLabel(cell[1], cell[2])))
          /\ ~HasMarker(sheet[cell[1]][cell[2]])
    /\ \E cell \in TrackedCellsOfRun :
          /\ HasRankNumber(PreviousLabel(cell[1], cell[2]))
          /\ FetchedPosition(cell[1]) = None
          /\ ~HasMarker(sheet[cell[1]][cell[2]])

\* the label the run computed for the keyword of row r of the snapshot
FetchedLabel(r) ==
    cache[PerKeywordKey(data[r][KeywordsColIndex(data[1]) + 1],
                        <<selected_domain>>)][selected_domain].label

\* C15: after a single-domain sync completes, no data row is skipped: every data
\* row with a non-empty keyword, also one whose keyword appears in another row,
\* holds in its domain cell the label computed in this run for its keyword
\* (with or without the improvement marker), at the row's own position.
C15_NoRowSkipped ==
    (/\ prog = "single" /\ spc = "done" /\ data # <<>>
     /\ log[Len(log)] = Message("success")) =>
        \A r \in 2..Len(data) :
            (data[r] # <<>> /\ data[r][KeywordsColIndex(data[1]) + 1] # EmptyStr) =>
                StripMarker(sheet[r][TrackedColumn]) = FetchedLabel(r)

\* the label the lolc run fetched for the keyword of row r and header column c
LolcFetchedLabel(r, c) ==
    cache[PerKeywordKey(data[r][1], Rest(data[1]))][data[1][c]].label

\* C16: the rows the lolc sync writes are in the order of the keyword rows of the
\* snapshot read at the start of the run, one written row per snapshot row, and
\* each written row is the keyword followed by exactly one label per header
\* domain in header order, also when a fetch ended in "Error".
C16_RowsKeepSnapshotOrder ==
    [][(prog = "lolc" /\ Len(log') = Len(log) + 1 /\ log'[Len(log')].ev = "update") =>
          /\ log'[Len(log')].rows = Len(data) - 1
          /\ log'[Len(log')].cols \in {0, Len(data[1])}
          /\ Len(sheet') = Len(data)
          /\ \A r \in 2..Len(data) :
                /\ Len(sheet'[r]) = Len(data[1])
                /\ sheet'[r][1] = data[r][1]
                /\ \A c \in 2..Len(data[1]) :
                      StripMarker(sheet'[r][c]) = LolcFetchedLabel(r, c)']_vars

\* C16 witness: a run wrote two rows with different keywords, the first with
\* "Error" for every domain and the second with a rank label
C16_Witness ==
    /\ prog = "lolc" /\ spc = "format" /\ Len(data) = 3
    /\ data[2][1] # data[3][1]
    /\ \A r \in 2..3 : sheet[r][1] = data[r][1]
    /\ \A c \in 2..Len(data[1]) : sheet[2][c] = ErrorStr
    /\ \E c \in 2..Len(data[1]) : AbsolutePosition(StripMarker(sheet[3][c])) # None

\* the header row has fewer than two columns, a first column that is not the
\* keyword column, or no column for the domain
HeaderCheckFails(headers, domain) ==
    \/ Len(headers) < 2
    \/ Lower(headers[1]) # KeywordHeader
    \/ \A c \in 1..Len(headers) : Lower(headers[c]) # Lower(domain)
FailsHeaderCheck(d) ==
    HasWorksheet(d) /\ Worksheet(d) # <<>> /\ HeaderCheckFails(Worksheet(d)[1], d)

\* C17: a domain whose sheet fails the header check has its job end as failed
\* without any ranking API request and without any write to the sheet, and the
\* other domains' jobs still run to their own outcome: a domain with good
\* headers is processed and its keyword row holds the label fetched for it.
C17_HeaderFailureIsLocal ==
    /\ [][\A d \in DOMAIN task :
            (task[d] = "running" /\ task'[d] = "finished" /\ FailsHeaderCheck(d)) =>
                /\ ret'[d] = FALSE
                /\ sheets' = sheets
                /\ cache' = cache
                /\ \A n \in (Len(log) + 1)..Len(log') :
                      log'[n].ev \notin {"request", "batch_update"}]_vars
    /\ [](prog = "all" /\ spc = "done" =>
            \A d \in {x \in Configured : HasWorksheet(x)} :
                IF FailsHeaderCheck(d)
                THEN Count(d, domains_failed) = 1 /\ Count(d, domains_processed) = 0
                ELSE Worksheet(d) # <<>> =>
                        /\ Count(d, domains_processed) = 1 /\ Count(d, domains_failed) = 0
                        /\ \A r \in 2..Len(Worksheet(d)) :
                              Worksheet(d)[r][1] # EmptyStr =>
                                  \E key \in DOMAIN cache :
                                      /\ key[3] = <<d>>
                                      /\ StripMarker(Worksheet(d)[r][2]) =
                                             cache[key][Worksheet(d)[r][1]].label)

\* C17 witness: a finished run in which the first domain failed for a first
\* column that is not the keyword column, the third for want of its own column,
\* and the second was processed after a ranking API request
C17_Witness ==
    /\ prog = "all" /\ spc = "done"
    /\ Len(DOMAIN_CONFIG) >= 3
    /\ \A d \in Range(DOMAIN_CONFIG) : HasWorksheet(d)
    /\ Worksheet(DOMAIN_CONFIG[1])[1] = <<DOMAIN_CONFIG[1], KeywordHeader>>
    /\ Worksheet(DOMAIN_CONFIG[3])[1] = <<KeywordHeader, REFERENCE_DOMAIN>>
    /\ \A n \in {1, 3} : Count(DOMAIN_CONFIG[n], domains_failed) = 1
    /\ domains_processed = <<DOMAIN_CONFIG[2]>>
    /\ Worksheet(DOMAIN_CONFIG[2])[2][2] # EmptyStr
    /\ \E n \in 1..Len(log) : log[n].ev = "request"

\* the domain pipelines executing now
Executing == {d \in DOMAIN task : task[d] = "running"}

SheetGidsDistinct ==
    \A d1 \in Range(ConfiguredDomains) :
        \A d2 \in Range(ConfiguredDomains) : d1 # d2 => SheetGid(d1) # SheetGid(d2)

\* C19: in update_all_domains no two concurrently running domain pipelines read
\* or write the same worksheet: the configured domains map to pairwise distinct
\* sheet identifiers, and a pipeline reads and writes the worksheet of its own
\* domain only.
C19_NoSharedWorksheet ==
    /\ []SheetGidsDistinct
    /\ [](prog = "all" =>
            \A d1 \in Executing :
                \A d2 \in Executing : d1 # d2 => SheetGid(d1) # SheetGid(d2))
    /\ [][prog = "all" =>
            \A d \in DOMAIN task :
                (task[d] = "running" /\ task'[d] = "finished") =>
                    /\ DOMAIN sheets' = DOMAIN sheets
                    /\ \A g \in DOMAIN sheets : g # SheetGid(d) => sheets'[g] = sheets[g]
                    /\ \A n \in (Len(log) + 1)..Len(log') :
                          log'[n].ev \in {"get_all_values", "batch_update"} =>
                              log'[n].sheet_gid = SheetGid(d)]_vars

\* C19 witness: a pipeline has written its worksheet while two other pipelines,
\* one of them with a worksheet of its own, are executing
C19_Witness ==
    /\ prog = "all" /\ spc = "collect"
    /\ Cardinality(Executing) >= 2
    /\ \E d2 \in Executing : HasWorksheet(d2) /\ Len(Worksheet(d2)) >= 2
    /\ \E d1 \in DOMAIN task :
          /\ task[d1] = "finished"
          /\ \E n \in 1..Len(log) : log[n] = BatchUpdateEvent(d1, 1)

\* C20: in every sync pipeline a throttling delay follows each per-keyword
\* ranking API call: between two ranking API requests for different keywords
\* in the log of a pipeline there is a throttle delay.
C20_ThrottleBetweenKeywords ==
    prog \in {"lolc", "single", "batch", "all"} =>
        \A m \in 1..Len(log) :
            \A n \in (m + 1)..Len(log) :
                (/\ log[m].ev = "request" /\ log[n].ev = "request"
                 /\ log[m].keyword # log[n].keyword) =>
                    \E k \in (m + 1)..(n - 1) : log[k] = ThrottleSleep

\* the store operations of the run in progress, in the order they were issued
StoreOps(events) ==
    SelectSeq(events, LAMBDA e : e.ev \in {"clear_formatting", "update", "update_cell",
                                           "batch_update", "batch_format"})
LastRunOps == StoreOps(RunLog(Cardinality(ReadIndexes)))

\* C21: in a successful lolc run the store operations are, in this order, one
\* clearing of prior formatting, exactly one bulk value write of the whole data
\* block from A2, and at most one batched formatting request that carries all
\* annotations of the run; no value and no format is sent cell by cell.
C21_ClearWriteFormatOrder ==
    [][(prog = "lolc" /\ spc = "format" /\ spc' = "done") =>
          /\ Len(LastRunOps') \in {2, 3}
          /\ LastRunOps'[1] = ClearFormatting
          /\ LastRunOps'[2].ev = "update"
          /\ LastRunOps'[2].range = "A2"
          /\ LastRunOps'[2].rows = Len(data) - 1
          /\ Len(LastRunOps') = 2 => cells_to_format = <<>>
          /\ Len(LastRunOps') = 3 =>
                /\ LastRunOps'[3].ev = "batch_format"
                /\ LastRunOps'[3].cells = Len(cells_to_format)
                /\ Len(cells_to_format) >= Len(data) - 1
          /\ log'[Len(log')] = Message("success")]_vars

\* C21 witness: a successful run over two keyword rows ended with one
\* formatting request for at least two cells
C21_Witness ==
    /\ prog = "lolc" /\ spc = "done" /\ Len(data) = 3
    /\ log[Len(log)] = Message("success")
    /\ Len(LastRunOps) = 3
    /\ LastRunOps[3].ev = "batch_format" /\ LastRunOps[3].cells >= 2

\* C22: in the cell-by-cell sync a cell write is issued only for a cell whose
\* new label differs from the label stored in the snapshot read at the start
\* of the run; a keyword whose label is unchanged causes no write.
C22_OnlyChangedCellsWritten ==
    [][prog = "single" =>
          \A n \in (Len(log) + 1)..Len(log') :
              log'[n].ev = "update_cell" =>
                  sheet'[log'[n].row][log'[n].col] # data[log'[n].row][log'[n].col]]_vars

\* the cached fetches of the variant in progress that were made for the keyword
\* and for the domain argument of the call in progress
EarlierFetches(keyword) ==
    {key \in DOMAIN cache :
        key[1] = variant /\ key[3] = target_urls /\ keyword \in Range(key[2])}
\* what a stored fetch holds for the keyword
StoredFor(key, keyword) == IF key[1] = "batch" THEN cache[key][keyword] ELSE cache[key]

\* C23: within the cache window a second fetch for the same keyword and the
\* same domain issues no upstream ranking request and returns the result of
\* the first, in the per-keyword variants and in the batch variant, also when
\* the other keywords of the batch differ between the two fetches.
C23_OneRequestPerKeywordAndDomain ==
    [][variant' \in {"perkw", "batch"} =>
          /\ \A n \in (Len(log) + 1)..Len(log') :
                log'[n].ev = "request" => EarlierFetches(log'[n].keyword) = {}
          /\ (fpc # "returned" /\ fpc' = "returned") =>
                \A k \in Range(keywords') :
                    \A key \in EarlierFetches(k)' :
                        StoredFor(key, k)' = StoredFor(CacheKey, k)']_vars

\* the text occurs in the URL
Occurs(text, url) ==
    \E i \in 0..(Len(url) - Len(text)) :
        \A x \in 1..Len(text) : url[i + x] = text[x]
\* the index, from n on, of the first result whose URL holds the domain; 0 if none
RECURSIVE FirstOccurrence(_, _, _)
FirstOccurrence(rankings, n, domain) ==
    IF n > Len(rankings) THEN 0
    ELSE IF Occurs(domain, rankings[n].link) THEN n
    ELSE FirstOccurrence(rankings, n + 1, domain)
\* the label of the claim for the domain, given the answer of the API
FirstMatchLabel(rankings, domain) ==
    LET n == FirstOccurrence(rankings, 1, domain)
    IN  IF n = 0 THEN <<"N","o","t"," ","R","a","n","k","e","d">>
        ELSE PageRankText(((rankings[n].position - 1) \div 10) + 1,
                          ((rankings[n].position - 1) % 10) + 1)
FirstMatchPosition(rankings, domain) ==
    LET n == FirstOccurrence(rankings, 1, domain)
    IN  IF n = 0 THEN None ELSE rankings[n].position

\* C24: on a successful response the position reported for a target domain is
\* the position of the first result, in response order, whose URL contains the
\* domain as a substring ("kia.lk" is matched by a URL with "www.wikia.lk");
\* a later matching result never overrides it, and a domain matched by no
\* result is "Not Ranked".
C24_FirstSubstringMatch ==
    /\ (fpc = "returned" /\ variant \in {"perkw", "app"} /\ AnsweredOk) =>
           \A u \in DOMAIN results :
               LET rankings == upstream[keywords[1]].rankings
               IN  /\ results[u].label = FirstMatchLabel(rankings, u)
                   /\ variant = "perkw" =>
                          results[u].position = FirstMatchPosition(rankings, u)
    /\ (fpc = "returned" /\ variant = "batch") =>
           \A n \in 1..Len(keywords) :
               (keywords[n] # EmptyStr /\ upstream[keywords[n]].fails < MAX_RETRIES) =>
                   LET rankings == upstream[keywords[n]].rankings
                   IN  /\ results[keywords[n]].label =
                              FirstMatchLabel(rankings, target_urls[1])
                       /\ results[keywords[n]].position =
                              FirstMatchPosition(rankings, target_urls[1])

\* C24 witness: the API listed www.wikia.lk/cars at position 2 before kia.lk/ at
\* position 3, and "kia.lk" is reported at position 2 while "lolcfinance.com"
\* is "Not Ranked"
C24_Witness ==
    /\ fpc = "returned" /\ variant = "perkw" /\ AnsweredOk
    /\ upstream[keywords[1]].rankings =
           <<Result(1, LinkOther), Result(2, LinkWikia), Result(3, LinkKia)>>
    /\ KiaDomain \in DOMAIN results /\ REFERENCE_DOMAIN \in DOMAIN results
    /\ results[KiaDomain].position = 2
    /\ results[KiaDomain].label = <<"P","a","g","e"," ","1"," ","R","a","n","k"," ","2">>
    /\ results[REFERENCE_DOMAIN].label = <<"N","o","t"," ","R","a","n","k","e","d">>

\* the header row has a column for the domain, in whatever letter case
HasColumnFor(headers, domain) ==
    \E c \in 2..Len(headers) : Lower(headers[c]) = Lower(domain)

\* C25: in every sync variant the domain column is found by a case-insensitive
\* match of the header against the configured domain and the keyword column is
\* the first column: a sheet whose header spells the reference domain in
\* another letter case is processed like one spelled exactly (it is not
\* rejected), and every keyword fetched is a value of the first column.
C25_HeaderMatchIgnoresCase ==
    /\ (/\ prog = "lolc" /\ spc = "done" /\ data # <<>>
        /\ HasColumnFor(data[1], REFERENCE_DOMAIN)) =>
           log[Len(log)] # Message("error")
    /\ (prog \in {"lolc", "single"} /\ spc \in {"loop", "format", "done"} /\ data # <<>>) =>
           \A n \in 1..Len(log) :
               (log[n].ev = "request" /\ n > NthRead(Cardinality(ReadIndexes))) =>
                   \E r \in 2..Len(data) : data[r] # <<>> /\ data[r][1] = log[n].keyword

\* the run in progress ended in the handler of update_google_sheet: a fetch of
\* the keyword loop raised
LolcFailed ==
    /\ prog = "lolc" /\ spc = "done" /\ Len(log) >= 2
    /\ log[Len(log)] = Message("error")
    /\ log[Len(log) - 1].ev = "request"

\* the backgrounds of a sheet that an earlier run has highlighted
EarlierFormats == {f \in InitialFormats : f[<<1, 1>>] = "GREEN"}

\* C26: a lolc sync that fails after it has started (a fetch raises on the k-th
\* keyword) leaves the store as it was before the run: every cell value and
\* every background highlight present when the run started is still there.
\* Stated for the first run, whose start is the initial state: the snapshot
\* `data` holds the values, and the sheet started with the highlights of an
\* earlier run.
C26_FailedRunLeavesStore ==
    (LolcFailed /\ runs = 1) => (sheet = data /\ fmt \in EarlierFormats)

\* the half of C26 that the code keeps: a failed run has written no cell value
C26_FailedRunKeepsValues == LolcFailed => sheet = data

\* the labels C27 allows: NumResults = 100 results are requested, so the page
\* number stays within 1..10
ValidLabels ==
    {NotRanked, ErrorStr}
    \cup {PageRankText(P, R) : P \in 1..(NumResults \div 10), R \in 1..10}
    \cup {PageRankText(P, R) \o ArrowStr : P \in 1..(NumResults \div 10), R \in 1..10}

\* the values of the cells of the domain columns (every column but the first,
\* below the header row) that differ between two states of a worksheet
ChangedLabels(old, new) ==
    UNION {{new[r][c] : c \in {x \in 2..Len(new[r]) :
                                  \/ r > Len(old)
                                  \/ x > Len(old[r])
                                  \/ old[r][x] # new[r][x]}} :
           r \in 2..Len(new)}

\* C27: every label a sync writes to a domain cell is "Page P Rank R",
\* "Page P Rank R ^", "Not Ranked" or "Error" with P >= 1 and R in 1..10, and
\* carries at most one improvement marker, in the first run and in every run
\* after it.
C27_LabelsWellFormed ==
    [][/\ ChangedLabels(sheet, sheet') \subseteq ValidLabels
       /\ \A g \in DOMAIN sheets : ChangedLabels(sheets[g], sheets'[g]) \subseteq ValidLabels
       /\ \A r \in 1..Len(new_data') :
              \A c \in 2..Len(new_data'[r]) : new_data'[r][c] \in ValidLabels]_vars

\* C27 witness: a second lolc run has finished; the first run had written a
\* label with the marker, which the second run replaced by the plain label, and
\* the sheet also holds a "Not Ranked" and an "Error" the runs wrote
C27_Witness ==
    /\ prog = "lolc" /\ runs = 2 /\ spc = "done"
    /\ log[Len(log)] = Message("success")
    /\ Len(data) = 3
    /\ new_data = SubSeq(sheet, 2, 3)
    /\ \E c \in 2..Len(data[2]) :
          /\ data[2][c] = PageRankText(1, 2) \o ArrowStr
          /\ sheet[2][c] = PageRankText(1, 2)
    /\ \E c \in 2..Len(sheet[2]) : sheet[2][c] = NotRanked
    /\ \E c \in 2..Len(sheet[3]) : sheet[3][c] = ErrorStr

\* the column of the snapshot that holds the keywords, 1-based
KeywordColumn == IF prog = "lolc" THEN 1 ELSE KeywordsColIndex(data[1]) + 1

\* C28: no ranking request is ever issued for an empty keyword: a data row whose
\* keyword cell is empty causes neither an API request nor a write to that row,
\* in every sync variant.
C28_EmptyKeywordSkipped ==
    /\ \A n \in 1..Len(log) : log[n].ev = "request" => log[n].keyword # EmptyStr
    /\ InPageRun =>
           \A cell \in CellsWritten(RunLog(Cardinality(ReadIndexes))) :
               (cell[1] <= Len(data) /\ Len(data[cell[1]]) >= KeywordColumn) =>
                   data[cell[1]][KeywordColumn] # EmptyStr

\* the dict holds an "Error" entry
HasError(res) == \E k \in DOMAIN res : res[k].label = ErrorStr
RequestCount == Len(SelectSeq(log, LAMBDA e : e.ev = "request"))

\* C29: a fetch that ended in "Error" after exhausting its retries is cached
\* like a successful one: the returned dict is stored under the arguments of the
\* call, and a repeat of the call within the cache window returns the stored
\* dict, "Error" included, without any upstream request.
C29_ErrorIsCached ==
    /\ []((fpc = "returned" /\ Cached(variant) /\ HasError(results)) =>
              (CacheKey \in DOMAIN cache /\ cache[CacheKey] = results))
    /\ [][(fpc = "idle" /\ fpc' # "idle" /\ Cached(variant')) =>
              \A key \in {CacheKey'} :
                  (key \in DOMAIN cache /\ HasError(cache[key])) =>
                      /\ fpc' = "returned"
                      /\ results' = cache[key]
                      /\ log' = log
                      /\ upstream' = upstream]_vars

\* C29 witness: the second call of check_ranking with the same arguments has
\* returned "Error" from the cache; the only requests are the MAX_RETRIES
\* requests of the first call
C29_Witness ==
    /\ prog = "repeat" /\ calls = 2 /\ fpc = "returned"
    /\ variant = "perkw" /\ results = ErrorResults(target_urls)
    /\ RequestCount = MAX_RETRIES
    /\ upstream[keywords[1]].fails = MAX_RETRIES

\* the sync side of C29: a second run issues no request for a keyword whose
\* fetch of the first run ended in "Error", and writes "Error" again
C29_SecondRunKeepsError ==
    SecondRun =>
        /\ \A cell \in RewrittenCells :
               data[cell[1]][cell[2]] = ErrorStr => sheet[cell[1]][cell[2]] = ErrorStr
        /\ \A e \in Range(RunLog(2)) :
               e.ev = "request" => e \notin Range(RunLog(1))

\* the rows of the snapshot, below the header row, that hold the keyword
KeywordRows(d, keyword) ==
    {r \in 2..Len(d) : d[r] # <<>> /\ d[r][KeywordsColIndex(d[1]) + 1] = keyword}

\* C30: in update_single_domain the range address built for each batch update
\* names the column of the tracked domain, for every column index the header
\* check accepts (index 26 and beyond included), and the row of the keyword in
\* the sheet.
C30_RangeNamesDomainCell ==
    [][\A domain \in DOMAIN task :
          (/\ prog = "batch" /\ Usable(domain)
           /\ task[domain] = "running" /\ task'[domain] = "finished") =>
              \A d \in {Worksheet(domain)} :
                  \A updates \in {BatchUpdates(d, domain,
                                                cache'[BatchKey(PoolKeywords(d), domain)])} :
                      \A n \in 1..Len(updates) :
                          /\ A1Column(updates[n].column) = DomainColIndex(d[1], domain) + 1
                          /\ updates[n].row \in KeywordRows(d, PoolKeywords(d)[n])]_vars

\* the row half of C30 alone
C30_RangeNamesKeywordRow ==
    [][\A domain \in DOMAIN task :
          (/\ prog = "batch" /\ Usable(domain)
           /\ task[domain] = "running" /\ task'[domain] = "finished") =>
              \A d \in {Worksheet(domain)} :
                  \A k \in Range(PoolKeywords(d)) : RowNum(d, k) \in KeywordRows(d, k)]_vars

====
